---- MODULE Spec2Model ----
(***************************************************************************)
(* Signal and position decision engine of usa_stock_finder:                *)
(*   stop_loss_cooldown.py  cooldown ledger                                *)
(*   trailing_stop.py       highest-close tracker                          *)
(*   sell_signals.py        tiered sell decisions                          *)
(*   main.py                one cycle: cooldown filter, sizing, selling    *)
(*                                                                         *)
(* Numbers.  Prices are whole dollars.  A percentage such as loss_pct is   *)
(* the quotient of two such prices; it is kept as an exact fraction        *)
(* [n, d] in lowest terms (d > 0), which orders and compares exactly as    *)
(* the correctly rounded double does for prices of this size.  The one     *)
(* place where double rounding changes a result, int(abs_loss / 0.10), is  *)
(* modelled with the doubles' own outcome (IntDivTenth).  Dates are day    *)
(* ordinals.  A Python dict is a function whose DOMAIN is its key set.     *)
(***************************************************************************)
EXTENDS Integers, Sequences, FiniteSets, TLC

VARIABLES
    cfg,            \* StrategyConfig / InvestmentConfig, fixed at import
    today,          \* date.today()
    stop_loss_log,  \* data/stop_loss_log.json
    trailing_file,  \* data/trailing_state.json
    state,          \* a caller's in-memory trailing-state dict
    max_close,      \* per symbol, the largest positive close passed to update_highest_close on state
    presale_high,   \* per symbol sold and not tracked again since, the highest_close of the deleted entry
    call,           \* the operation that has just run: arguments, snapshot, result
    prev_call       \* the operation before it (pure-function runs only)

vars == <<cfg, today, stop_loss_log, trailing_file, state, max_close, presale_high, call, prev_call>>

----------------------------------------------------------------------------
(* Bounds of the model *)

MaxDay == 17
MaxEventDay == 1
MaxCycleDay == 10

Symbols == {"AAA", "BBB"}

----------------------------------------------------------------------------
(* Exact fractions *)

RECURSIVE GCD(_, _)
GCD(a, b) == IF b = 0 THEN a ELSE GCD(b, a % b)

Abs(x) == IF x < 0 THEN -x ELSE x

Frac(n, d) ==
    LET g == GCD(Abs(n), d)
    IN  [n |-> n \div g, d |-> d \div g]

Zero == Frac(0, 1)
Pct(p) == Frac(p, 100)

FLe(a, b) == a.n * b.d <= b.n * a.d
FLt(a, b) == a.n * b.d < b.n * a.d
FNeg(a) == [n |-> -a.n, d |-> a.d]
FAbs(a) == [n |-> Abs(a.n), d |-> a.d]

Min(a, b) == IF a <= b THEN a ELSE b
Max(a, b) == IF a >= b THEN a ELSE b

\* Optional[float]: None is <<>>, a value v is <<v>>
None == <<>>
Some(v) == <<v>>

EmptyDict == [s \in {} |-> 0]

IdleCall == [op |-> "idle"]

----------------------------------------------------------------------------
(* Configuration *)

\* StrategyConfig: stop-loss, trailing and cooldown parameters
StrategyDefaults ==
    [ STOP_LOSS_PCT |-> Pct(10),
      TRAILING_ENABLED |-> TRUE,
      TRAILING_MIN_PROFIT_PCT |-> Pct(20),
      TRAILING_ATR_MULTIPLIER |-> 2,
      STOP_LOSS_COOLDOWN_BASE_DAYS |-> 5,
      STOP_LOSS_COOLDOWN_EXTRA_DAYS_PER_10PCT |-> 5,
      STOP_LOSS_COOLDOWN_MAX_DAYS |-> 60 ]

\* StrategyConfig correlation thresholds (percent) and InvestmentConfig (dollars)
InvestmentDefaults ==
    [ CORRELATION_THRESHOLD_STRICT |-> 50,
      CORRELATION_THRESHOLD_RELAXED |-> 40,
      RESERVE_RATIO |-> Pct(10),
      MIN_INVESTMENT |-> 100,
      MAX_INVESTMENT |-> 0,
      DISTRIBUTION_STRATEGY |-> "equal",
      PROPORTIONAL_PERCENTAGE |-> Zero ]

DefaultConfig == StrategyDefaults @@ InvestmentDefaults

BaseDaysChoices == {3, 5}
ExtraDaysChoices == {0, 5}
MaxDaysChoices == {0, 12, 60}

CooldownConfigs ==
    { [DefaultConfig EXCEPT !.STOP_LOSS_COOLDOWN_BASE_DAYS = b,
                            !.STOP_LOSS_COOLDOWN_EXTRA_DAYS_PER_10PCT = e,
                            !.STOP_LOSS_COOLDOWN_MAX_DAYS = m] :
        b \in BaseDaysChoices, e \in ExtraDaysChoices, m \in MaxDaysChoices }

----------------------------------------------------------------------------
(* stop_loss_cooldown.py *)

\* The multiples k of 10% for which the double quotient abs(-k/10) / 0.10
\* falls just below k, so that int() yields k - 1 (0.3 / 0.10 is
\* 2.9999999999999996).
FloatTruncDefects == {3, 6, 7, 12, 14, 19}

\* int(abs_loss / 0.10) for abs_loss >= 0
IntDivTenth(abs_loss) ==
    LET q == (10 * abs_loss.n) \div abs_loss.d
        exact == (10 * abs_loss.n) % abs_loss.d = 0
    IN  IF exact /\ q \in FloatTruncDefects THEN q - 1 ELSE q

calculate_cooldown_days_minus(loss_pct) ==
    IF FLe(Zero, loss_pct)
    THEN cfg.STOP_LOSS_COOLDOWN_BASE_DAYS
    ELSE LET abs_loss == FAbs(loss_pct)
             extra_blocks == IntDivTenth(abs_loss)
             cooldown_days == cfg.STOP_LOSS_COOLDOWN_BASE_DAYS
                                - extra_blocks * cfg.STOP_LOSS_COOLDOWN_EXTRA_DAYS_PER_10PCT
         IN  IF cfg.STOP_LOSS_COOLDOWN_MAX_DAYS > 0
             THEN Min(cooldown_days, cfg.STOP_LOSS_COOLDOWN_MAX_DAYS)
             ELSE cooldown_days

calculate_cooldown_days(loss_pct) ==
    IF FLe(Zero, loss_pct)
    THEN cfg.STOP_LOSS_COOLDOWN_BASE_DAYS
    ELSE LET abs_loss == FAbs(loss_pct)
             extra_blocks == IntDivTenth(abs_loss)
             cooldown_days == cfg.STOP_LOSS_COOLDOWN_BASE_DAYS
                                + extra_blocks * cfg.STOP_LOSS_COOLDOWN_EXTRA_DAYS_PER_10PCT
         IN  IF cfg.STOP_LOSS_COOLDOWN_MAX_DAYS > 0
             THEN Min(cooldown_days, cfg.STOP_LOSS_COOLDOWN_MAX_DAYS)
             ELSE cooldown_days

loss_pct_to_record_as_given(loss_pct) ==
    IF loss_pct = None THEN Zero ELSE loss_pct[1]

\* the value record_stop_loss_event stores for its loss_pct argument
loss_pct_to_record(loss_pct) ==
    IF loss_pct = None \/ FLe(Zero, loss_pct[1]) THEN Zero ELSE loss_pct[1]

\* log[symbol] = {...} on the loaded dict, as saved
record_append(log, symbol, loss_pct, day) ==
    IF symbol \in DOMAIN log
    THEN log
    ELSE [s \in DOMAIN log \cup {symbol} |->
            IF s = symbol
            THEN [last_stop_loss_date |-> day, loss_pct |-> loss_pct_to_record(loss_pct)]
            ELSE log[s]]

record_stop_loss_event(log, symbol, loss_pct, day) ==
    [s \in DOMAIN log \cup {symbol} |->
        IF s = symbol
        THEN [last_stop_loss_date |-> day, loss_pct |-> loss_pct_to_record(loss_pct)]
        ELSE log[s]]

is_in_cooldown_inclusive(log, symbol, day) ==
    IF symbol \notin DOMAIN log
    THEN FALSE
    ELSE (day - log[symbol].last_stop_loss_date) <= calculate_cooldown_days(log[symbol].loss_pct)

is_in_cooldown(log, symbol, day) ==
    IF symbol \notin DOMAIN log
    THEN FALSE
    ELSE LET entry == log[symbol]
             cooldown_days == calculate_cooldown_days(entry.loss_pct)
             elapsed_days == day - entry.last_stop_loss_date
         IN  elapsed_days < cooldown_days

----------------------------------------------------------------------------
(* Runs of calculate_cooldown_days alone *)

CooldownLossInputs ==
    { Pct(5), Zero, Pct(-8), Pct(-9), Pct(-10), Pct(-15), Pct(-20), Pct(-25),
      Pct(-28), Pct(-30), Pct(-31), Pct(-60), Pct(-95) }

InitCooldownDays ==
    /\ cfg \in CooldownConfigs
    /\ today = 0
    /\ stop_loss_log = EmptyDict
    /\ trailing_file = EmptyDict
    /\ state = EmptyDict
    /\ max_close = [s \in Symbols |-> 0]
    /\ presale_high = EmptyDict
    /\ call = IdleCall
    /\ prev_call = IdleCall

CalculateCooldownDays(loss_pct) ==
    /\ call' = [op |-> "calculate_cooldown_days",
                loss_pct |-> loss_pct,
                result |-> calculate_cooldown_days(loss_pct)]
    /\ prev_call' = call
    /\ UNCHANGED <<cfg, today, stop_loss_log, trailing_file, state, max_close, presale_high>>

NextCooldownDays == \E l \in CooldownLossInputs : CalculateCooldownDays(l)

SpecCooldownDays == InitCooldownDays /\ [][NextCooldownDays]_vars

(* C7: calculate_cooldown_days(lossPct) is BASE_DAYS for lossPct >= 0 and  *)
(* otherwise BASE_DAYS + floor(|lossPct| / 0.10) * EXTRA_DAYS_PER_10PCT,   *)
(* capped at MAX_DAYS when MAX_DAYS > 0; with 5 / 5 / 60, -8% and -9% give *)
(* 5, -15% gives 10, -25% and -28% give 15.                                *)
CooldownDaysByFormula(loss_pct) ==
    IF loss_pct.n >= 0
    THEN cfg.STOP_LOSS_COOLDOWN_BASE_DAYS
    ELSE LET floor_blocks == (10 * Abs(loss_pct.n)) \div loss_pct.d
             days == cfg.STOP_LOSS_COOLDOWN_BASE_DAYS
                       + floor_blocks * cfg.STOP_LOSS_COOLDOWN_EXTRA_DAYS_PER_10PCT
         IN  IF cfg.STOP_LOSS_COOLDOWN_MAX_DAYS > 0 /\ days > cfg.STOP_LOSS_COOLDOWN_MAX_DAYS
             THEN cfg.STOP_LOSS_COOLDOWN_MAX_DAYS
             ELSE days

C7_CooldownDaysFormula ==
    call.op = "calculate_cooldown_days" => call.result = CooldownDaysByFormula(call.loss_pct)

\* the part of C7 the code does satisfy: every loss that is not a whole multiple of 10%
C7_OffMultiples ==
    (call.op = "calculate_cooldown_days" /\ (10 * call.loss_pct.n) % call.loss_pct.d # 0)
        => call.result = CooldownDaysByFormula(call.loss_pct)

(* C8: for two negative loss percentages x and y with |x| <= |y|,          *)
(* calculate_cooldown_days(x) <= calculate_cooldown_days(y), under every   *)
(* configuration of base, extra and maximum days.                          *)
C8_CooldownMonotone ==
    (/\ call.op = "calculate_cooldown_days"
     /\ prev_call.op = "calculate_cooldown_days"
     /\ FLt(prev_call.loss_pct, Zero)
     /\ FLt(call.loss_pct, Zero)
     /\ FLe(FAbs(prev_call.loss_pct), FAbs(call.loss_pct)))
        => prev_call.result <= call.result

C8_Witness ==
    /\ call.op = "calculate_cooldown_days"
    /\ prev_call.op = "calculate_cooldown_days"
    /\ prev_call.loss_pct = Pct(-28)
    /\ call.loss_pct = Pct(-30)
    /\ cfg.STOP_LOSS_COOLDOWN_MAX_DAYS = 12
    /\ cfg.STOP_LOSS_COOLDOWN_EXTRA_DAYS_PER_10PCT = 5
    /\ prev_call.result <= call.result

----------------------------------------------------------------------------
(* The cooldown ledger over days: record_stop_loss_event, is_in_cooldown *)

LedgerConfigs == { c \in CooldownConfigs :
                     /\ c.STOP_LOSS_COOLDOWN_BASE_DAYS = 5
                     /\ c.STOP_LOSS_COOLDOWN_EXTRA_DAYS_PER_10PCT = 5
                     /\ c.STOP_LOSS_COOLDOWN_MAX_DAYS > 0 }

RecordLossInputs ==
    { None, Some(Pct(10)), Some(Zero), Some(Pct(-8)), Some(Pct(-28)), Some(Pct(-30)) }

InitLedger ==
    /\ cfg \in LedgerConfigs
    /\ today = 0
    /\ stop_loss_log = EmptyDict
    /\ trailing_file = EmptyDict
    /\ state = EmptyDict
    /\ max_close = [s \in Symbols |-> 0]
    /\ presale_high = EmptyDict
    /\ call = IdleCall
    /\ prev_call = IdleCall

RecordStopLossEventKeepingLonger(symbol, loss_pct) ==
    /\ call.op = "idle"
    /\ today <= MaxEventDay
    /\ stop_loss_log' =
          LET new == record_stop_loss_event(stop_loss_log, symbol, loss_pct, today)
          IN  IF symbol \in DOMAIN stop_loss_log
                 /\ new[symbol].last_stop_loss_date + calculate_cooldown_days(new[symbol].loss_pct)
                      < stop_loss_log[symbol].last_stop_loss_date
                          + calculate_cooldown_days(stop_loss_log[symbol].loss_pct)
              THEN stop_loss_log
              ELSE new
    /\ call' = [op |-> "record_stop_loss_event",
                symbol |-> symbol,
                loss_pct |-> loss_pct,
                today |-> today,
                log_before |-> stop_loss_log]
    /\ UNCHANGED <<cfg, today, trailing_file, state, max_close, prev_call, presale_high>>

RecordStopLossEvent(symbol, loss_pct) ==
    /\ call.op = "idle"
    /\ today <= MaxEventDay
    /\ stop_loss_log' = record_stop_loss_event(stop_loss_log, symbol, loss_pct, today)
    /\ call' = [op |-> "record_stop_loss_event",
                symbol |-> symbol,
                loss_pct |-> loss_pct,
                today |-> today,
                log_before |-> stop_loss_log]
    /\ UNCHANGED <<cfg, today, trailing_file, state, max_close, prev_call, presale_high>>

IsInCooldown(symbol) ==
    /\ call.op = "idle"
    /\ call' = [op |-> "is_in_cooldown",
                symbol |-> symbol,
                today |-> today,
                result |-> is_in_cooldown(stop_loss_log, symbol, today)]
    /\ UNCHANGED <<cfg, today, stop_loss_log, trailing_file, state, max_close, prev_call, presale_high>>

\* the calendar moves to the next day between runs
AdvanceDay ==
    /\ call.op = "idle"
    /\ today < MaxDay
    /\ today' = today + 1
    /\ UNCHANGED <<cfg, stop_loss_log, trailing_file, state, max_close, call, prev_call, presale_high>>

\* the caller has consumed the result of the last operation
Return ==
    /\ call.op # "idle"
    /\ call' = IdleCall
    /\ UNCHANGED <<cfg, today, stop_loss_log, trailing_file, state, max_close, prev_call, presale_high>>

NextLedger ==
    \/ \E s \in Symbols, l \in RecordLossInputs : RecordStopLossEvent(s, l)
    \/ \E s \in Symbols : IsInCooldown(s)
    \/ AdvanceDay
    \/ Return

SpecLedger == InitLedger /\ [][NextLedger]_vars

(* C5: is_in_cooldown(symbol, today) is false without a ledger entry and   *)
(* otherwise true exactly while today - lastEventDate < cooldownDays; with *)
(* no new event it turns false on the day the elapsed days equal the       *)
(* cooldown and stays false (-28% on day D: true on D+14, false from D+15).*)
C5_Result ==
    call.op = "is_in_cooldown" =>
        /\ (call.symbol \notin DOMAIN stop_loss_log => call.result = FALSE)
        /\ (call.symbol \in DOMAIN stop_loss_log =>
              LET e == stop_loss_log[call.symbol]
                  elapsed == call.today - e.last_stop_loss_date
              IN  /\ call.result = (elapsed < calculate_cooldown_days(e.loss_pct))
                  /\ (cfg = DefaultConfig /\ e.loss_pct = Pct(-28))
                        => call.result = (elapsed <= 14))

InCooldownNow(s) == is_in_cooldown(stop_loss_log, s, today)

C5_Step ==
    \A s \in DOMAIN stop_loss_log :
        (stop_loss_log' = stop_loss_log /\ today' = today + 1) =>
            /\ (~InCooldownNow(s) => ~InCooldownNow(s)')
            /\ ((InCooldownNow(s) /\ ~InCooldownNow(s)') =>
                   today' - stop_loss_log[s].last_stop_loss_date
                       = calculate_cooldown_days(stop_loss_log[s].loss_pct))

C5_CooldownWindow == [](C5_Result) /\ [][C5_Step]_vars

C5_Witness ==
    /\ call.op = "is_in_cooldown"
    /\ cfg = DefaultConfig
    /\ call.symbol \in DOMAIN stop_loss_log
    /\ stop_loss_log[call.symbol].loss_pct = Pct(-28)
    /\ call.today - stop_loss_log[call.symbol].last_stop_loss_date = 15
    /\ call.result = FALSE

----------------------------------------------------------------------------
(* trailing_stop.py *)

HighestCloseOf(st, symbol) ==
    IF symbol \in DOMAIN st THEN st[symbol].highest_close ELSE 0

update_highest_close_last(st, symbol, close_price, day) ==
    IF close_price <= 0
    THEN [state |-> st, result |-> HighestCloseOf(st, symbol)]
    ELSE [state |-> [s \in DOMAIN st \cup {symbol} |->
                        IF s = symbol
                        THEN [highest_close |-> close_price, last_update |-> day]
                        ELSE st[s]],
          result |-> close_price]

\* returns the dict as mutated in place and the value returned
update_highest_close(st, symbol, close_price, day) ==
    IF close_price <= 0
    THEN [state |-> st, result |-> HighestCloseOf(st, symbol)]
    ELSE LET prev_high == HighestCloseOf(st, symbol)
             new_high == IF prev_high > 0 THEN Max(prev_high, close_price) ELSE close_price
         IN  [state |-> [s \in DOMAIN st \cup {symbol} |->
                            IF s = symbol
                            THEN [highest_close |-> new_high, last_update |-> day]
                            ELSE st[s]],
              result |-> new_high]

ClosePrices == {-5, 0, 1100, 1200, 1300}

InitTrailing ==
    /\ cfg = DefaultConfig
    /\ today = 0
    /\ stop_loss_log = EmptyDict
    /\ trailing_file = EmptyDict
    /\ state = EmptyDict
    /\ max_close = [s \in Symbols |-> 0]
    /\ presale_high = EmptyDict
    /\ call = IdleCall
    /\ prev_call = IdleCall

UpdateHighestClose(symbol, close_price) ==
    /\ call.op = "idle"
    /\ today <= MaxEventDay
    /\ LET r == update_highest_close(state, symbol, close_price, today)
       IN  /\ state' = r.state
           /\ call' = [op |-> "update_highest_close",
                       symbol |-> symbol,
                       close_price |-> close_price,
                       state_before |-> state,
                       result |-> r.result]
    /\ max_close' = [max_close EXCEPT ![symbol] =
                        IF close_price > 0 THEN Max(@, close_price) ELSE @]
    /\ UNCHANGED <<cfg, today, stop_loss_log, trailing_file, prev_call, presale_high>>

NextTrailing ==
    \/ \E s \in Symbols, c \in ClosePrices : UpdateHighestClose(s, c)
    \/ AdvanceDay
    \/ Return

SpecTrailing == InitTrailing /\ [][NextTrailing]_vars

(* C9: over any sequence of update_highest_close calls with close_price > 0*)
(* on one symbol's state the stored and returned highest_close never       *)
(* decreases and equals the largest close passed so far; a call with       *)
(* close_price <= 0 returns the stored high and leaves the state unchanged.*)
C9_State ==
    /\ \A s \in Symbols :
          IF max_close[s] > 0
          THEN s \in DOMAIN state /\ state[s].highest_close = max_close[s]
          ELSE s \notin DOMAIN state
    /\ call.op = "update_highest_close" =>
          IF call.close_price > 0
          THEN /\ call.result = max_close[call.symbol]
               /\ call.result = state[call.symbol].highest_close
               /\ call.result >= HighestCloseOf(call.state_before, call.symbol)
               /\ call.result >= call.close_price
          ELSE /\ state = call.state_before
               /\ call.result = HighestCloseOf(call.state_before, call.symbol)

C9_Step ==
    \A s \in DOMAIN state :
        s \in DOMAIN state' /\ state'[s].highest_close >= state[s].highest_close

C9_HighestCloseMonotone == [](C9_State) /\ [][C9_Step]_vars

C9_Witness ==
    /\ call.op = "update_highest_close"
    /\ call.close_price = 1200
    /\ HighestCloseOf(call.state_before, call.symbol) = 1300
    /\ call.result = 1300
    /\ state[call.symbol].last_update = 1
    /\ call.state_before[call.symbol].last_update = 0

----------------------------------------------------------------------------
(* sell_signals.py *)

NONE == "HOLD"
STOP_LOSS == "STOP_LOSS"
TRAILING == "TRAILING"
AVSL == "AVSL"
TREND == "TREND"

SellDecision(symbol, reason, quantity) ==
    [symbol |-> symbol, reason |-> reason, quantity |-> quantity]

DictPut(d, k, v) == [x \in DOMAIN d \cup {k} |-> IF x = k THEN v ELSE d[x]]
DictDel(d, ks) == [x \in DOMAIN d \ ks |-> d[x]]

\* finder.current_price first, the holding's current_price when that is missing or 0
select_current_price(finder_price, holding_price) ==
    IF finder_price > 0 THEN finder_price ELSE holding_price

\* Prices are counted in tenths of a dollar: 1000 is $100.00, 901 is $90.10.
PriceUnitsPerDollar == 10

\* The pairs <<avg_price, current_price>>, up to $130, that lie exactly 10%
\* apart and for which the double (current_price - avg_price) / avg_price
\* comes out just above -0.10 ((9.9 - 11.0) / 11.0 is -0.09999999999999996),
\* so that the comparison with -STOP_LOSS_PCT = -0.10 is false. Off the
\* exact boundary the double comparison agrees with the exact one.
FloatBoundaryMisses ==
    { <<a, (9 * a) \div 10>> : a \in
        { 10, 20, 30, 40, 60, 80, 110, 120, 160, 170, 190, 220, 240, 270, 290,
          320, 340, 380, 390, 430, 440, 480, 490, 530, 540, 580, 590, 630, 640,
          680, 690, 730, 760, 780, 810, 830, 860, 880, 910, 930, 960, 980, 1010,
          1030, 1060, 1080, 1110, 1130, 1160, 1180, 1210, 1230, 1260, 1280 } }

\* Tier 1
stop_loss_triggered(avg_price, current_price) ==
    /\ avg_price > 0
    /\ current_price > 0
    /\ FLe(Frac(current_price - avg_price, avg_price), FNeg(cfg.STOP_LOSS_PCT))
    /\ ~(cfg.STOP_LOSS_PCT = Pct(10) /\ <<avg_price, current_price>> \in FloatBoundaryMisses)

trailing_gate_no_minimum(avg_price, current_price) ==
    /\ cfg.TRAILING_ENABLED
    /\ avg_price > 0
    /\ current_price > 0
    /\ current_price > avg_price

\* Tier 2 gate: enabled, prices known, profit at least the minimum
trailing_gate(avg_price, current_price) ==
    /\ cfg.TRAILING_ENABLED
    /\ avg_price > 0
    /\ current_price > 0
    /\ FLe(cfg.TRAILING_MIN_PROFIT_PCT, Frac(current_price - avg_price, avg_price))

trailing_triggered_at_high(highest_close, atr_value, current_price) ==
    /\ atr_value > 0
    /\ highest_close > 0
    /\ current_price <= highest_close

\* Tier 2 exit test once the highest close has been updated
trailing_triggered(highest_close, atr_value, current_price) ==
    /\ atr_value > 0
    /\ highest_close > 0
    /\ current_price <= highest_close - atr_value * cfg.TRAILING_ATR_MULTIPLIER

sell_reason_hold_list_first(stop_hit, trailing_hit, avsl_signal, trend_fail) ==
    IF ~trend_fail /\ ~avsl_signal THEN NONE
    ELSE IF stop_hit THEN STOP_LOSS
    ELSE IF trailing_hit THEN TRAILING
    ELSE IF avsl_signal THEN AVSL
    ELSE TREND

\* the order in which the tiers leave the loop body
sell_reason(stop_hit, trailing_hit, avsl_signal, trend_fail) ==
    IF stop_hit THEN STOP_LOSS
    ELSE IF trailing_hit THEN TRAILING
    ELSE IF avsl_signal THEN AVSL
    ELSE IF trend_fail THEN TREND
    ELSE NONE

decision_quantity_half(reason, quantity) ==
    IF reason = NONE THEN 0
    ELSE IF reason = TREND THEN quantity \div 2
    ELSE quantity

\* the quantity put into the SellDecision of a holding with quantity > 0
decision_quantity(reason, quantity) ==
    IF reason = NONE THEN 0 ELSE quantity

\* the loss_pct argument of the cooldown event
event_loss_pct(avg_price, current_price) ==
    IF avg_price > 0 /\ current_price > 0
    THEN Some(Frac(current_price - avg_price, avg_price))
    ELSE None

\* one pass of the loop body; acc carries decisions, the loaded trailing
\* state, its modified flag and the ledger file
evaluate_holding(acc, holding, inp, day) ==
    LET symbol == holding.symbol
        quantity == holding.quantity
        avg_price == holding.avg_price
        current_price == select_current_price(inp.current_price[symbol], holding.current_price)
        stop_hit == stop_loss_triggered(avg_price, current_price)
        gate == ~stop_hit /\ trailing_gate(avg_price, current_price)
        upd == update_highest_close(acc.trailing_state, symbol, current_price, day)
        trailing_hit == gate /\ trailing_triggered(upd.result, inp.atr[symbol], current_price)
        trend_fail == symbol \notin inp.selected_buy /\ symbol \notin inp.selected_not_sell
        reason == sell_reason(stop_hit, trailing_hit, inp.avsl_signals[symbol], trend_fail)
    IN  IF symbol = ""
        THEN acc
        ELSE IF quantity <= 0
        THEN [acc EXCEPT !.decisions = DictPut(@, symbol, SellDecision(symbol, NONE, 0))]
        ELSE [decisions |-> DictPut(acc.decisions, symbol,
                                    SellDecision(symbol, reason, decision_quantity(reason, quantity))),
              trailing_state |-> IF gate THEN upd.state ELSE acc.trailing_state,
              trailing_state_modified |-> acc.trailing_state_modified \/ gate,
              log |-> IF reason # NONE
                      THEN record_stop_loss_event(acc.log, symbol,
                                                  event_loss_pct(avg_price, current_price), day)
                      ELSE acc.log]

RECURSIVE evaluate_holdings(_, _, _, _, _)
evaluate_holdings(acc, holdings, i, inp, day) ==
    IF i > Len(holdings)
    THEN acc
    ELSE evaluate_holdings(evaluate_holding(acc, holdings[i], inp, day), holdings, i + 1, inp, day)

SoldSymbols(decisions) ==
    { s \in DOMAIN decisions : decisions[s].reason # NONE /\ decisions[s].quantity > 0 }

clear_sold_trailing_keep(decisions, trailing_state) == trailing_state

\* the trailing entries of the symbols decided for sale are deleted
clear_sold_trailing(decisions, trailing_state) ==
    DictDel(trailing_state, SoldSymbols(decisions))

evaluate_sell_decisions_saving_always(inp, tfile, log, day) ==
    LET acc0 == [decisions |-> EmptyDict,
                 trailing_state |-> tfile,
                 trailing_state_modified |-> FALSE,
                 log |-> log]
        acc == evaluate_holdings(acc0, inp.holdings, 1, inp, day)
        cleared == clear_sold_trailing(acc.decisions, acc.trailing_state)
    IN  [decisions |-> acc.decisions,
         trailing_file |-> cleared,
         saved |-> TRUE,
         deleted |-> SoldSymbols(acc.decisions) \cap DOMAIN acc.trailing_state,
         loaded_state |-> acc.trailing_state,
         log |-> acc.log]

evaluate_sell_decisions(inp, tfile, log, day) ==
    LET acc0 == [decisions |-> EmptyDict,
                 trailing_state |-> tfile,
                 trailing_state_modified |-> FALSE,
                 log |-> log]
        acc == evaluate_holdings(acc0, inp.holdings, 1, inp, day)
        cleared == clear_sold_trailing(acc.decisions, acc.trailing_state)
        modified == \/ acc.trailing_state_modified
                    \/ SoldSymbols(acc.decisions) \cap DOMAIN acc.trailing_state # {}
    IN  [decisions |-> acc.decisions,
         trailing_file |-> IF modified THEN cleared ELSE tfile,
         saved |-> modified,
         deleted |-> SoldSymbols(acc.decisions) \cap DOMAIN acc.trailing_state,
         loaded_state |-> acc.trailing_state,
         log |-> acc.log]

----------------------------------------------------------------------------
(* Runs of evaluate_sell_decisions *)

SymbolOrder == <<"AAA", "BBB">>

\* what one call sees of one symbol: its holding row (if held), the
\* finder's quote and ATR, the AVSL signal, membership of the two lists
FullCases ==
    [ held : {TRUE},
      quantity : {10},
      avg_price : {0, 1000},
      holding_price : {0, 900},
      finder_price : {0, 901, 1100, 1200, 1300},
      atr : {0, 50},
      avsl : BOOLEAN,
      member : {"buy", "hold", "none"} ]

\* a holding bought at $11.00 and worth $9.90, exactly 10% down
BoundaryCases ==
    [ held : {TRUE},
      quantity : {10},
      avg_price : {110},
      holding_price : {99},
      finder_price : {0, 99},
      atr : {50},
      avsl : {FALSE},
      member : {"hold"} ]

\* rows without shares, at a loss and at a profit
EmptyRowCases ==
    [ held : {TRUE},
      quantity : {-5, 0},
      avg_price : {1000},
      holding_price : {900},
      finder_price : {0, 1300},
      atr : {50},
      avsl : {TRUE},
      member : {"none"} ]

\* the other symbol: not held, sold at the stop, or held at a profit
CannedCases ==
    { [held |-> FALSE, quantity |-> 0, avg_price |-> 0, holding_price |-> 0,
       finder_price |-> 1300, atr |-> 50, avsl |-> FALSE, member |-> "buy"],
      [held |-> TRUE, quantity |-> 10, avg_price |-> 1000, holding_price |-> 900,
       finder_price |-> 0, atr |-> 50, avsl |-> TRUE, member |-> "buy"],
      [held |-> TRUE, quantity |-> 10, avg_price |-> 1000, holding_price |-> 900,
       finder_price |-> 1300, atr |-> 50, avsl |-> FALSE, member |-> "hold"] }

HoldingRow(s, c) ==
    [symbol |-> s, quantity |-> c.quantity, avg_price |-> c.avg_price,
     current_price |-> c.holding_price]

RECURSIVE HoldingsFrom(_, _)
HoldingsFrom(caseOf, i) ==
    IF i > Len(SymbolOrder) THEN <<>>
    ELSE LET s == SymbolOrder[i]
         IN  (IF caseOf[s].held THEN <<HoldingRow(s, caseOf[s])>> ELSE <<>>)
                \o HoldingsFrom(caseOf, i + 1)

SellInput(caseOf) ==
    [holdings |-> HoldingsFrom(caseOf, 1),
     current_price |-> [s \in Symbols |-> caseOf[s].finder_price],
     atr |-> [s \in Symbols |-> caseOf[s].atr],
     avsl_signals |-> [s \in Symbols |-> caseOf[s].avsl],
     selected_buy |-> {s \in Symbols : caseOf[s].member = "buy"},
     selected_not_sell |-> {s \in Symbols : caseOf[s].member = "hold"}]

SellInputs ==
    { SellInput([s \in Symbols |-> IF s = SymbolOrder[1] THEN fc ELSE oc]) :
        fc \in FullCases \cup BoundaryCases \cup EmptyRowCases, oc \in CannedCases }

SellConfigs ==
    { [DefaultConfig EXCEPT !.TRAILING_ENABLED = b] : b \in BOOLEAN }

InitSell ==
    /\ cfg \in SellConfigs
    /\ today = 0
    /\ stop_loss_log = EmptyDict
    /\ trailing_file = EmptyDict
    /\ state = EmptyDict
    /\ max_close = [s \in Symbols |-> 0]
    /\ presale_high = EmptyDict
    /\ call = IdleCall
    /\ prev_call = IdleCall

EvaluateSellDecisions(inp) ==
    /\ call.op = "idle"
    /\ LET r == evaluate_sell_decisions(inp, trailing_file, stop_loss_log, today)
       IN  /\ trailing_file' = r.trailing_file
           /\ stop_loss_log' = r.log
           /\ presale_high' = [s \in ((DOMAIN presale_high \cup r.deleted)
                                            \ DOMAIN r.trailing_file) |->
                                  IF s \in r.deleted
                                  THEN r.loaded_state[s].highest_close
                                  ELSE presale_high[s]]
           /\ call' = [op |-> "evaluate_sell_decisions",
                       inp |-> inp,
                       today |-> today,
                       trailing_before |-> trailing_file,
                       log_before |-> stop_loss_log,
                       presale_before |-> presale_high,
                       decisions |-> r.decisions,
                       saved |-> r.saved]
    /\ UNCHANGED <<cfg, today, state, max_close, prev_call>>

\* the ledger file when an exception leaves the loop at holding k, the
\* holdings before it having been evaluated and their events recorded
ledger_after_fault(inp, tfile, log, day, k) ==
    evaluate_holdings([decisions |-> EmptyDict,
                       trailing_state |-> tfile,
                       trailing_state_modified |-> FALSE,
                       log |-> log],
                      SubSeq(inp.holdings, 1, k - 1), 1, inp, day).log

\* evaluate_sell_decisions does not complete: an exception is raised while
\* holding k is evaluated (save_stop_loss_log re-raises IOError, a quote or
\* ATR lookup fails), or, for k past the last holding, by
\* save_trailing_state, which re-raises after the file has been opened for
\* writing and may leave it without a readable state
EvaluateSellDecisionsRaises(inp, k, truncated) ==
    /\ call.op = "idle"
    /\ k \in 1..(Len(inp.holdings) + 1)
    /\ k = Len(inp.holdings) + 1 =>
          evaluate_sell_decisions(inp, trailing_file, stop_loss_log, today).saved
    /\ truncated => k = Len(inp.holdings) + 1
    /\ stop_loss_log' = ledger_after_fault(inp, trailing_file, stop_loss_log, today, k)
    /\ trailing_file' = IF truncated THEN EmptyDict ELSE trailing_file
    /\ call' = [op |-> "evaluate_sell_decisions_raised",
                inp |-> inp,
                today |-> today,
                trailing_before |-> trailing_file,
                log_before |-> stop_loss_log,
                fault_at |-> k]
    /\ UNCHANGED <<cfg, today, state, max_close, presale_high, prev_call>>

NextSell ==
    \/ \E inp \in SellInputs : EvaluateSellDecisions(inp)
    \/ Return

SpecSell == InitSell /\ [][NextSell]_vars

\* runs in which evaluate_sell_decisions may raise: the first symbol held on
\* the hold list at each of the quotes, the other symbol as above
FaultInputs ==
    { SellInput([s \in Symbols |-> IF s = SymbolOrder[1] THEN fc ELSE oc]) :
        fc \in { c \in FullCases : /\ c.avg_price = 1000
                                   /\ c.holding_price = 900
                                   /\ c.atr = 50
                                   /\ ~c.avsl
                                   /\ c.member = "hold" },
        oc \in CannedCases }

NextSellFaults ==
    \/ \E inp \in FaultInputs : EvaluateSellDecisions(inp)
    \/ \E inp \in FaultInputs, k \in 1..(Len(SymbolOrder) + 1), truncated \in BOOLEAN :
          EvaluateSellDecisionsRaises(inp, k, truncated)
    \/ Return

SpecSellFaults == InitSell /\ [][NextSellFaults]_vars

\* the inputs of the holding row of a symbol, as the claims name them
RowsOf(inp) == { inp.holdings[i] : i \in 1..Len(inp.holdings) }
PriceUsed(inp, h) ==
    IF inp.current_price[h.symbol] > 0 THEN inp.current_price[h.symbol] ELSE h.current_price
StopCond(inp, h) ==
    LET p == PriceUsed(inp, h)
    IN  /\ h.avg_price > 0
        /\ p > 0
        /\ (p - h.avg_price) * cfg.STOP_LOSS_PCT.d <= -(cfg.STOP_LOSS_PCT.n * h.avg_price)
        /\ <<h.avg_price, p>> \notin FloatBoundaryMisses
ProfitGate(inp, h) ==
    LET p == PriceUsed(inp, h)
    IN  /\ cfg.TRAILING_ENABLED
        /\ h.avg_price > 0
        /\ p > 0
        /\ (p - h.avg_price) * cfg.TRAILING_MIN_PROFIT_PCT.d
              >= cfg.TRAILING_MIN_PROFIT_PCT.n * h.avg_price
TrailCond(inp, h, before) ==
    LET p == PriceUsed(inp, h)
        high == Max(HighestCloseOf(before, h.symbol), p)
    IN  /\ ProfitGate(inp, h)
        /\ inp.atr[h.symbol] > 0
        /\ p <= high - inp.atr[h.symbol] * cfg.TRAILING_ATR_MULTIPLIER
AvslCond(inp, h) == inp.avsl_signals[h.symbol]
TrendCond(inp, h) == h.symbol \notin (inp.selected_buy \cup inp.selected_not_sell)

(* C1: for every holding with quantity > 0 the decision's reason is the    *)
(* highest-priority tier whose condition holds, STOP_LOSS > TRAILING >     *)
(* AVSL > TREND > NONE, whatever the lower tiers' inputs are.              *)
C1_PriorityOrder ==
    call.op = "evaluate_sell_decisions" =>
        \A h \in RowsOf(call.inp) :
            h.quantity > 0 =>
                LET r == call.decisions[h.symbol].reason
                    stop == StopCond(call.inp, h)
                    trail == TrailCond(call.inp, h, call.trailing_before)
                    avsl == AvslCond(call.inp, h)
                    trend == TrendCond(call.inp, h)
                IN  /\ stop => r = STOP_LOSS
                    /\ (~stop /\ trail) => r = TRAILING
                    /\ (~stop /\ ~trail /\ avsl) => r = AVSL
                    /\ (~stop /\ ~trail /\ ~avsl /\ trend) => r = TREND
                    /\ (~stop /\ ~trail /\ ~avsl /\ ~trend) => r = NONE

C1_Witness ==
    /\ call.op = "evaluate_sell_decisions"
    /\ \E h \in RowsOf(call.inp) :
          /\ h.quantity > 0
          /\ StopCond(call.inp, h)
          /\ AvslCond(call.inp, h)
          /\ h.symbol \in call.inp.selected_buy
          /\ call.decisions[h.symbol].reason = STOP_LOSS
    /\ \E h \in RowsOf(call.inp) :
          /\ h.quantity > 0
          /\ TrailCond(call.inp, h, call.trailing_before)
          /\ AvslCond(call.inp, h)
          /\ TrendCond(call.inp, h)
          /\ call.decisions[h.symbol].reason = TRAILING

(* C2: a holding with quantity > 0 is decided STOP_LOSS exactly when       *)
(* avgPrice > 0, currentPrice > 0 and (currentPrice - avgPrice)/avgPrice   *)
(* <= -STOP_LOSS_PCT, inclusive ($100 -> $90 fires, $90.10 does not),      *)
(* where currentPrice is the finder's quote when > 0, else the holding's   *)
(* price.                                                                  *)
C2_StopLossExactly ==
    call.op = "evaluate_sell_decisions" =>
        \A h \in RowsOf(call.inp) :
            h.quantity > 0 =>
                LET live == call.inp.current_price[h.symbol]
                    p == IF live > 0 THEN live ELSE h.current_price
                    fired == call.decisions[h.symbol].reason = STOP_LOSS
                IN  /\ fired <=> (/\ h.avg_price > 0
                                  /\ p > 0
                                  /\ 10 * (p - h.avg_price) <= -h.avg_price)
                    /\ (h.avg_price = 1000 /\ p = 900) => fired
                    /\ (h.avg_price = 1000 /\ p = 901) => ~fired

\* the same, for the prices where the double quotient is on the exact side
C2_OffBoundaryMisses ==
    call.op = "evaluate_sell_decisions" =>
        \A h \in RowsOf(call.inp) :
            (h.quantity > 0 /\ <<h.avg_price, PriceUsed(call.inp, h)>> \notin FloatBoundaryMisses) =>
                LET p == PriceUsed(call.inp, h)
                IN  (call.decisions[h.symbol].reason = STOP_LOSS)
                        <=> (/\ h.avg_price > 0
                             /\ p > 0
                             /\ 10 * (p - h.avg_price) <= -h.avg_price)

\* the row bought at $11.00 and worth $9.90 is kept
C2_BoundaryMissReached ==
    /\ call.op = "evaluate_sell_decisions"
    /\ \E h \in RowsOf(call.inp) :
          /\ h.quantity > 0
          /\ h.avg_price = 110
          /\ PriceUsed(call.inp, h) = 99
          /\ call.decisions[h.symbol].reason = NONE

(* C3: every SellDecision has quantity 0 iff its reason is NONE, a         *)
(* decision to sell carries the holding's full quantity, and a holding     *)
(* with quantity <= 0 gets NONE with quantity 0 whatever its loss.         *)
C3_FullQuantityOrNone ==
    call.op = "evaluate_sell_decisions" =>
        /\ \A s \in DOMAIN call.decisions :
              (call.decisions[s].quantity = 0) <=> (call.decisions[s].reason = NONE)
        /\ \A h \in RowsOf(call.inp) :
              LET d == call.decisions[h.symbol]
              IN  /\ d.reason # NONE => d.quantity = h.quantity
                  /\ h.quantity <= 0 => (d.reason = NONE /\ d.quantity = 0)

C3_Witness ==
    /\ call.op = "evaluate_sell_decisions"
    /\ \E h \in RowsOf(call.inp) :
          /\ h.quantity < 0
          /\ StopCond(call.inp, h)
          /\ call.decisions[h.symbol] = SellDecision(h.symbol, NONE, 0)
    /\ \E h \in RowsOf(call.inp) :
          /\ h.quantity > 0
          /\ call.decisions[h.symbol] = SellDecision(h.symbol, STOP_LOSS, h.quantity)

----------------------------------------------------------------------------
(* main.py *)

One == Frac(1, 1)
FSub(a, b) == Frac(a.n * b.d - b.n * a.d, a.d * b.d)
FMul(a, b) == Frac(a.n * b.n, a.d * b.d)
FDivInt(a, k) == Frac(a.n, a.d * k)
FromInt(k) == Frac(k, 1)
\* round(x, 2) of a non-negative amount
Round2(a) == Frac((200 * a.n + a.d) \div (2 * a.d), 100)
\* int(amount / price) for amount >= 0, price > 0
IntDiv(a, price) == a.n \div (a.d * price)

Range(seq) == { seq[i] : i \in 1..Len(seq) }

RECURSIVE FilterSeq(_, _, _)
FilterSeq(seq, keep, i) ==
    IF i > Len(seq) THEN <<>>
    ELSE (IF seq[i] \in keep THEN <<seq[i]>> ELSE <<>>) \o FilterSeq(seq, keep, i + 1)

\* buy and hold lists from the two trend verdicts and the 50-day correlation
select_stocks(symbols, valid_trend, valid_trend_margin, correlation_50) ==
    LET buy == { s \in Range(symbols) :
                   valid_trend[s] /\ correlation_50[s] >= cfg.CORRELATION_THRESHOLD_STRICT }
        hold == { s \in Range(symbols) \ buy :
                   valid_trend_margin[s] /\ correlation_50[s] >= cfg.CORRELATION_THRESHOLD_RELAXED }
    IN  [selected_buy |-> FilterSeq(symbols, buy, 1),
         selected_not_sell |-> FilterSeq(symbols, hold, 1)]

filter_cooldown_none(buy_items, log, day) == buy_items

\* the buy candidates that are not in stop-loss cooldown today
filter_cooldown(buy_items, log, day) ==
    FilterSeq(buy_items, { s \in Range(buy_items) : ~is_in_cooldown(log, s, day) }, 1)

\* The pairs <<buyable_cash, reserve_ratio>> met in the runs below for which
\* the double product buyable_cash * (1 - reserve_ratio) comes out just
\* below the exact amount (170 * (1 - 0.3) is 118.99999999999999).
FloatTotalBelow == { <<170, Pct(30)>> }

investment_per_stock_within_cash(account_balance, total_investment, num_stocks) ==
    LET share == FDivInt(total_investment, num_stocks)
        flat == FMul(FromInt(account_balance.total_balance), cfg.PROPORTIONAL_PERCENTAGE)
    IN  IF cfg.DISTRIBUTION_STRATEGY = "proportional"
             /\ FLt(Zero, cfg.PROPORTIONAL_PERCENTAGE)
             /\ FLt(flat, share)
        THEN flat
        ELSE share

\* the amount per stock of the configured distribution strategy
investment_per_stock(account_balance, total_investment, num_stocks) ==
    IF cfg.DISTRIBUTION_STRATEGY = "proportional"
         /\ FLt(Zero, cfg.PROPORTIONAL_PERCENTAGE)
    THEN FMul(FromInt(account_balance.total_balance), cfg.PROPORTIONAL_PERCENTAGE)
    ELSE FDivInt(total_investment, num_stocks)

calculate_investment_per_stock_default_amount(buy_items, account_balance) ==
    IF buy_items = <<>> THEN EmptyDict
    ELSE IF ~account_balance.ok
    THEN [s \in Range(buy_items) |-> FromInt(cfg.MIN_INVESTMENT)]
    ELSE IF account_balance.buyable_cash <= 0 THEN EmptyDict
    ELSE LET total_investment == FMul(FromInt(account_balance.buyable_cash),
                                      FSub(One, cfg.RESERVE_RATIO))
             num_stocks == Len(buy_items)
             per_stock ==
                 IF cfg.DISTRIBUTION_STRATEGY = "proportional"
                      /\ FLt(Zero, cfg.PROPORTIONAL_PERCENTAGE)
                 THEN FMul(FromInt(account_balance.total_balance), cfg.PROPORTIONAL_PERCENTAGE)
                 ELSE FDivInt(total_investment, num_stocks)
             stock_investment ==
                 IF cfg.MAX_INVESTMENT > 0 /\ FLt(FromInt(cfg.MAX_INVESTMENT), per_stock)
                 THEN FromInt(cfg.MAX_INVESTMENT)
                 ELSE per_stock
             below == /\ stock_investment = FDivInt(total_investment, num_stocks)
                      /\ <<account_balance.buyable_cash, cfg.RESERVE_RATIO>> \in FloatTotalBelow
             meets_minimum == \/ FLt(FromInt(cfg.MIN_INVESTMENT), stock_investment)
                              \/ FromInt(cfg.MIN_INVESTMENT) = stock_investment /\ ~below
             affordable == IF meets_minimum THEN Range(buy_items) ELSE {}
         IN  [s \in affordable |-> Round2(stock_investment)]

\* the investment map; the empty dict stands for a None result
calculate_investment_per_stock(buy_items, account_balance) ==
    IF buy_items = <<>> THEN EmptyDict
    ELSE IF ~account_balance.ok THEN EmptyDict
    ELSE IF account_balance.buyable_cash <= 0 THEN EmptyDict
    ELSE LET total_investment == FMul(FromInt(account_balance.buyable_cash),
                                      FSub(One, cfg.RESERVE_RATIO))
             num_stocks == Len(buy_items)
             per_stock == investment_per_stock(account_balance, total_investment, num_stocks)
             stock_investment ==
                 IF cfg.MAX_INVESTMENT > 0 /\ FLt(FromInt(cfg.MAX_INVESTMENT), per_stock)
                 THEN FromInt(cfg.MAX_INVESTMENT)
                 ELSE per_stock
             below == /\ ~(cfg.DISTRIBUTION_STRATEGY = "proportional"
                            /\ FLt(Zero, cfg.PROPORTIONAL_PERCENTAGE))
                      /\ stock_investment = FDivInt(total_investment, num_stocks)
                      /\ <<account_balance.buyable_cash, cfg.RESERVE_RATIO>> \in FloatTotalBelow
             meets_minimum == \/ FLt(FromInt(cfg.MIN_INVESTMENT), stock_investment)
                              \/ FromInt(cfg.MIN_INVESTMENT) = stock_investment /\ ~below
             affordable == IF meets_minimum THEN Range(buy_items) ELSE {}
         IN  [s \in affordable |-> Round2(stock_investment)]

\* The pairs <<investment_amount, current_price>> met in the runs below whose
\* exact quotient is a whole number while the double quotient comes out
\* just below it, so that int() yields one share less (132.0 / 8.8 is
\* 14.999999999999998, 110.0 / 2.2 is 49.99999999999999).
FloatShareMisses == { <<Frac(132, 1), 88>>, <<Frac(110, 1), 22>> }

\* the share plan; the empty dict stands for a None result
calculate_share_quantities(investment_map, current_price, current_holdings) ==
    LET held(s) == { h \in Range(current_holdings) : h.symbol = s }
        current_quantity(s) == IF held(s) = {} THEN 0 ELSE (CHOOSE h \in held(s) : TRUE).quantity
        target_total_quantity(s) ==
            IntDiv(FMul(investment_map[s], FromInt(PriceUnitsPerDollar)), current_price[s])
                - (IF <<investment_map[s], current_price[s]>> \in FloatShareMisses THEN 1 ELSE 0)
        planned == { s \in DOMAIN investment_map :
                       current_price[s] > 0 /\ target_total_quantity(s) > 0 }
    IN  [s \in planned |->
            LET shares_to_buy == IF current_quantity(s) = 0
                                 THEN target_total_quantity(s)
                                 ELSE Max(target_total_quantity(s) - current_quantity(s), 0)
            IN  [investment_amount |-> investment_map[s],
                 current_price |-> current_price[s],
                 shares_to_buy |-> shares_to_buy,
                 current_quantity |-> current_quantity(s),
                 total_after_buy |-> current_quantity(s) + shares_to_buy]]

----------------------------------------------------------------------------
(* Cycles of main *)

\* trend verdicts (strict, relaxed) and 50-day correlation of one symbol
TrendCases ==
    { [valid_trend |-> TRUE, valid_trend_margin |-> TRUE, correlation_50 |-> 60],
      [valid_trend |-> TRUE, valid_trend_margin |-> TRUE, correlation_50 |-> 45],
      [valid_trend |-> FALSE, valid_trend_margin |-> TRUE, correlation_50 |-> 45],
      [valid_trend |-> FALSE, valid_trend_margin |-> FALSE, correlation_50 |-> 60] }

\* the first symbol in a cycle: held or not, quoted or not
MainCases ==
    { [held |-> h, quantity |-> 1, avg_price |-> 100, holding_price |-> 90,
       finder_price |-> fp, atr |-> 5, avsl |-> a, trend |-> t] :
        h \in BOOLEAN, fp \in {0, 95}, a \in BOOLEAN, t \in TrendCases }

\* the second symbol: absent from the account and the lists, or held at
\* the stop while buy-eligible
MainCannedCases ==
    { [held |-> FALSE, quantity |-> 0, avg_price |-> 0, holding_price |-> 0,
       finder_price |-> 95, atr |-> 5, avsl |-> FALSE,
       trend |-> [valid_trend |-> FALSE, valid_trend_margin |-> FALSE, correlation_50 |-> 60]],
      [held |-> TRUE, quantity |-> 1, avg_price |-> 100, holding_price |-> 90,
       finder_price |-> 90, atr |-> 5, avsl |-> FALSE,
       trend |-> [valid_trend |-> TRUE, valid_trend_margin |-> TRUE, correlation_50 |-> 60]] }

\* fetch_account_balance: APIError, or the buyable cash and total balance
BalanceCases ==
    { [ok |-> FALSE, buyable_cash |-> 0, total_balance |-> 0],
      [ok |-> TRUE, buyable_cash |-> 150, total_balance |-> 150],
      [ok |-> TRUE, buyable_cash |-> 1000, total_balance |-> 1000] }

MainRuns ==
    { [env |-> "ok", account_balance |-> b,
       caseOf |-> [s \in Symbols |-> IF s = SymbolOrder[1] THEN c ELSE o]] :
        b \in BalanceCases, c \in MainCases, o \in MainCannedCases }
    \cup
    { [env |-> e, account_balance |-> b,
       caseOf |-> [s \in Symbols |-> o]] :
        e \in {"holdings_error", "invalid_data", "detail_error"},
        b \in {x \in BalanceCases : x.buyable_cash = 1000},
        o \in {x \in MainCannedCases : x.held} }

InitMain ==
    /\ cfg = DefaultConfig
    /\ today = 0
    /\ stop_loss_log = EmptyDict
    /\ trailing_file = EmptyDict
    /\ state = EmptyDict
    /\ max_close = [s \in Symbols |-> 0]
    /\ presale_high = EmptyDict
    /\ call = IdleCall
    /\ prev_call = IdleCall

Init == InitMain

\* what main computes up to the sell evaluation
MainPlan(m, log, day) ==
    LET sel == select_stocks(SymbolOrder,
                             [s \in Symbols |-> m.caseOf[s].trend.valid_trend],
                             [s \in Symbols |-> m.caseOf[s].trend.valid_trend_margin],
                             [s \in Symbols |-> m.caseOf[s].trend.correlation_50])
        buy_items == filter_cooldown(sel.selected_buy, log, day)
        current_price == [s \in Symbols |-> m.caseOf[s].finder_price]
        current_holdings_detail == HoldingsFrom(m.caseOf, 1)
        investment_map == IF buy_items # <<>>
                          THEN calculate_investment_per_stock(buy_items, m.account_balance)
                          ELSE EmptyDict
        share_quantities == IF investment_map # EmptyDict
                            THEN calculate_share_quantities(investment_map, current_price,
                                                            current_holdings_detail)
                            ELSE EmptyDict
    IN  [selected_buy |-> sel.selected_buy,
         buy_items |-> buy_items,
         not_sell_items |-> sel.selected_not_sell,
         investment_map |-> investment_map,
         share_quantities |-> share_quantities,
         sell_input |-> [holdings |-> current_holdings_detail,
                         current_price |-> current_price,
                         atr |-> [s \in Symbols |-> m.caseOf[s].atr],
                         avsl_signals |-> [s \in Symbols |-> m.caseOf[s].avsl],
                         selected_buy |-> Range(buy_items),
                         selected_not_sell |-> Range(sel.selected_not_sell)]]

\* loads and saves of the ledger file in one cycle: is_in_cooldown loads it
\* for every buy candidate, record_stop_loss_event loads and saves it for
\* every sell event
ledger_io(selected_buy, decisions) ==
    [loads |-> Len(selected_buy) + Cardinality(SoldSymbols(decisions)),
     saves |-> Cardinality(SoldSymbols(decisions))]

\* loads and saves of the trailing-state file in one cycle
trailing_io(evaluated, saved) ==
    [loads |-> IF evaluated THEN 1 ELSE 0,
     saves |-> IF evaluated /\ saved THEN 1 ELSE 0]

MainCall(m, outcome, plan, decisions, evaluated, saved) ==
    [op |-> "main",
     ledger_io |-> ledger_io(plan.selected_buy, decisions),
     trailing_io |-> trailing_io(evaluated, saved),
     run |-> m,
     today |-> today,
     log_before |-> stop_loss_log,
     trailing_before |-> trailing_file,
     outcome |-> outcome,
     selected_buy |-> plan.selected_buy,
     buy_items |-> plan.buy_items,
     not_sell_items |-> plan.not_sell_items,
     investment_map |-> plan.investment_map,
     share_quantities |-> plan.share_quantities,
     decisions |-> decisions]

NoPlan ==
    [selected_buy |-> <<>>, buy_items |-> <<>>, not_sell_items |-> <<>>,
     investment_map |-> EmptyDict, share_quantities |-> EmptyDict]

\* one invocation of main
Main(m) ==
    /\ call.op = "idle"
    /\ LET plan == MainPlan(m, stop_loss_log, today)
           r == evaluate_sell_decisions(plan.sell_input, trailing_file, stop_loss_log, today)
       IN  IF m.env \in {"holdings_error", "invalid_data"}
           THEN \* fetch_us_stock_holdings raised, or the price data is invalid: return
                /\ call' = MainCall(m, "stopped", NoPlan, EmptyDict, FALSE, FALSE)
                /\ UNCHANGED <<stop_loss_log, trailing_file, presale_high>>
           ELSE IF m.env = "detail_error"
           THEN \* fetch_holdings_detail raised: the exception leaves main
                /\ call' = MainCall(m, "raised", NoPlan, EmptyDict, FALSE, FALSE)
                /\ UNCHANGED <<stop_loss_log, trailing_file, presale_high>>
           ELSE IF plan.sell_input.holdings = <<>>
           THEN /\ call' = MainCall(m, "done", plan, EmptyDict, FALSE, FALSE)
                /\ UNCHANGED <<stop_loss_log, trailing_file, presale_high>>
           ELSE /\ call' = MainCall(m, "done", plan, r.decisions, TRUE, r.saved)
                /\ stop_loss_log' = r.log
                /\ trailing_file' = r.trailing_file
                /\ presale_high' = [s \in ((DOMAIN presale_high \cup r.deleted)
                                             \ DOMAIN r.trailing_file) |->
                                       IF s \in r.deleted
                                       THEN r.loaded_state[s].highest_close
                                       ELSE presale_high[s]]
    /\ UNCHANGED <<cfg, today, state, max_close, prev_call>>

\* the calendar moves on between runs
SkipDays ==
    /\ call.op = "idle"
    /\ today < MaxCycleDay
    /\ today' = today + 1
    /\ UNCHANGED <<cfg, stop_loss_log, trailing_file, state, max_close, presale_high, call, prev_call>>

Next ==
    \/ \E m \in MainRuns : Main(m)
    \/ SkipDays
    \/ Return

Spec == Init /\ [][Next]_vars

(* C4: in every cycle each symbol for which is_in_cooldown(symbol, today)  *)
(* is true is removed from the buy candidates before sizing: it is neither *)
(* in the investment map nor in the share-quantity plan of that cycle.     *)
InCooldownAt(log, s, day) ==
    /\ s \in DOMAIN log
    /\ day - log[s].last_stop_loss_date < calculate_cooldown_days(log[s].loss_pct)

C4_CooldownFiltered ==
    call.op = "main" =>
        \A s \in Symbols :
            InCooldownAt(call.log_before, s, call.today) =>
                /\ s \notin Range(call.buy_items)
                /\ s \notin DOMAIN call.investment_map
                /\ s \notin DOMAIN call.share_quantities

C4_Witness ==
    /\ call.op = "main"
    /\ call.outcome = "done"
    /\ \E s \in Range(call.selected_buy) :
          /\ InCooldownAt(call.log_before, s, call.today)
          /\ s \notin DOMAIN call.investment_map
    /\ \E s \in Range(call.selected_buy) :
          /\ s \in DOMAIN call.log_before
          /\ ~InCooldownAt(call.log_before, s, call.today)
          /\ s \in DOMAIN call.share_quantities

----------------------------------------------------------------------------
(* C11: a TRAILING decision is produced only when TRAILING_ENABLED, tier 1 *)
(* did not fire, avgPrice > 0, currentPrice > 0, profit >= the minimum,    *)
(* ATR > 0 and currentPrice <= highestClose - ATR * multiplier; the        *)
(* trailing state of a symbol is written only when the symbol passes the   *)
(* enabled and minimum-profit gate; with ATR 0 the tier never fires.       *)
EntryWritten(before, after, s) ==
    /\ s \in DOMAIN after
    /\ (s \in DOMAIN before => after[s] # before[s])

C11_TrailingGated ==
    call.op = "evaluate_sell_decisions" =>
        /\ \A h \in RowsOf(call.inp) :
              LET p == PriceUsed(call.inp, h)
                  r == call.decisions[h.symbol].reason
                  atr_value == call.inp.atr[h.symbol]
                  highestClose == Max(HighestCloseOf(call.trailing_before, h.symbol), p)
                  gated == /\ cfg.TRAILING_ENABLED
                           /\ h.avg_price > 0
                           /\ p > 0
                           /\ (p - h.avg_price) * cfg.TRAILING_MIN_PROFIT_PCT.d
                                 >= cfg.TRAILING_MIN_PROFIT_PCT.n * h.avg_price
              IN  /\ r = TRAILING =>
                        /\ h.quantity > 0
                        /\ gated
                        /\ ~StopCond(call.inp, h)
                        /\ atr_value > 0
                        /\ p <= highestClose - atr_value * cfg.TRAILING_ATR_MULTIPLIER
                  /\ EntryWritten(call.trailing_before, trailing_file, h.symbol) =>
                        (h.quantity > 0 /\ gated)
                  /\ atr_value = 0 => r # TRAILING
        /\ call.saved =>
              \E h \in RowsOf(call.inp) :
                  \/ ProfitGate(call.inp, h)
                  \/ /\ h.symbol \in DOMAIN call.trailing_before
                     /\ call.decisions[h.symbol].reason # NONE

C11_Witness ==
    /\ call.op = "evaluate_sell_decisions"
    /\ cfg.TRAILING_ENABLED
    /\ \E h \in RowsOf(call.inp) :
          /\ call.decisions[h.symbol].reason = TRAILING
          /\ HighestCloseOf(call.trailing_before, h.symbol) > PriceUsed(call.inp, h)
    /\ \E h \in RowsOf(call.inp) :
          /\ ProfitGate(call.inp, h)
          /\ EntryWritten(call.trailing_before, trailing_file, h.symbol)
          /\ call.decisions[h.symbol].reason = NONE

----------------------------------------------------------------------------
(* C12: in a full cycle a held symbol that is buy-eligible (strict trend   *)
(* verdict and 50-day correlation >= the strict threshold) or              *)
(* hold-eligible (relaxed verdict and correlation >= the relaxed           *)
(* threshold) never receives a TREND decision, whatever the cooldown       *)
(* ledger contains; TREND fires only for a held symbol in neither set.     *)
BuyEligible(m, s) ==
    /\ m.caseOf[s].trend.valid_trend
    /\ m.caseOf[s].trend.correlation_50 >= cfg.CORRELATION_THRESHOLD_STRICT

HoldEligible(m, s) ==
    /\ m.caseOf[s].trend.valid_trend_margin
    /\ m.caseOf[s].trend.correlation_50 >= cfg.CORRELATION_THRESHOLD_RELAXED

C12_EligibleNeverTrend ==
    (call.op = "main" /\ call.outcome = "done") =>
        \A s \in DOMAIN call.decisions :
            call.decisions[s].reason = TREND =>
                (~BuyEligible(call.run, s) /\ ~HoldEligible(call.run, s))

\* the same once the candidates removed by the cooldown filter are set aside
C12_TrendOutsidePassedLists ==
    (call.op = "main" /\ call.outcome = "done") =>
        \A s \in DOMAIN call.decisions :
            call.decisions[s].reason = TREND =>
                \/ ~BuyEligible(call.run, s) /\ ~HoldEligible(call.run, s)
                \/ BuyEligible(call.run, s) /\ InCooldownAt(call.log_before, s, call.today)

\* a held, buy-eligible symbol in cooldown is decided TREND
C12_EligibleSoldReached ==
    /\ call.op = "main"
    /\ \E s \in DOMAIN call.decisions :
          /\ call.decisions[s].reason = TREND
          /\ BuyEligible(call.run, s)
          /\ s \in Range(call.selected_buy)
          /\ s \notin Range(call.buy_items)

----------------------------------------------------------------------------
(* Position sizing on its own *)

SizingSymbols == <<"AAA", "BBB", "CCC">>

ReserveChoices == {Pct(10), Pct(30)}
MinInvestmentChoices == {100, 119, 300}
MaxInvestmentChoices == {0, 250}

SizingConfigs ==
    { [DefaultConfig EXCEPT !.RESERVE_RATIO = r,
                            !.MIN_INVESTMENT = mn,
                            !.MAX_INVESTMENT = mx] :
        r \in ReserveChoices, mn \in MinInvestmentChoices, mx \in MaxInvestmentChoices }

SizingBalances ==
    { [ok |-> FALSE, buyable_cash |-> 0, total_balance |-> 0] }
    \cup { [ok |-> TRUE, buyable_cash |-> c, total_balance |-> c] : c \in {0, 170, 1000} }

InitSizing ==
    /\ cfg \in SizingConfigs
    /\ today = 0
    /\ stop_loss_log = EmptyDict
    /\ trailing_file = EmptyDict
    /\ state = EmptyDict
    /\ max_close = [s \in Symbols |-> 0]
    /\ presale_high = EmptyDict
    /\ call = IdleCall
    /\ prev_call = IdleCall

CalculateInvestmentPerStock(buy_items, account_balance) ==
    /\ call.op = "idle"
    /\ call' = [op |-> "calculate_investment_per_stock",
                buy_items |-> buy_items,
                account_balance |-> account_balance,
                result |-> calculate_investment_per_stock(buy_items, account_balance)]
    /\ UNCHANGED <<cfg, today, stop_loss_log, trailing_file, state, max_close,
                   presale_high, prev_call>>

\* allocations, quotes and held quantities of a share-quantity run
ShareAmounts == {100, 132}
SharePrices == {0, 88, 90, 1500}
HeldQuantities == {0, 5, 14, 15, 20}

ShareHoldings ==
    { <<>> } \cup
    { <<[symbol |-> "AAA", quantity |-> q, avg_price |-> 100, current_price |-> 90]>> :
        q \in HeldQuantities }

\* the holdings once the planned shares have been bought
HoldingsAfterPurchase(current_holdings, plan) ==
    LET held == { current_holdings[i].symbol : i \in 1..Len(current_holdings) }
        kept == [i \in 1..Len(current_holdings) |->
                    LET h == current_holdings[i]
                    IN  IF h.symbol \in DOMAIN plan
                        THEN [h EXCEPT !.quantity = plan[h.symbol].total_after_buy]
                        ELSE h]
        bought == FilterSeq(SymbolOrder, DOMAIN plan \ held, 1)
    IN  kept \o [i \in 1..Len(bought) |->
                    [symbol |-> bought[i], quantity |-> plan[bought[i]].total_after_buy,
                     avg_price |-> plan[bought[i]].current_price,
                     current_price |-> plan[bought[i]].current_price]]

\* the sizing, and the sizing once more on the holdings after the purchase
CalculateShareQuantities(investment_map, current_price, current_holdings) ==
    /\ call.op = "idle"
    /\ LET plan == calculate_share_quantities(investment_map, current_price, current_holdings)
           after == HoldingsAfterPurchase(current_holdings, plan)
       IN  call' = [op |-> "calculate_share_quantities",
                    investment_map |-> investment_map,
                    current_price |-> current_price,
                    current_holdings |-> current_holdings,
                    result |-> plan,
                    holdings_after |-> after,
                    result_again |-> calculate_share_quantities(investment_map, current_price, after)]
    /\ UNCHANGED <<cfg, today, stop_loss_log, trailing_file, state, max_close,
                   presale_high, prev_call>>

NextSizing ==
    \/ \E k \in 0..Len(SizingSymbols), b \in SizingBalances :
          CalculateInvestmentPerStock(SubSeq(SizingSymbols, 1, k), b)
    \/ \E a \in ShareAmounts, pa \in SharePrices, both \in BOOLEAN, hs \in ShareHoldings :
          CalculateShareQuantities(
              [s \in (IF both THEN {"AAA", "BBB"} ELSE {"AAA"}) |-> Frac(a, 1)],
              [s \in Symbols |-> IF s = "AAA" THEN pa ELSE 90],
              hs)
    \/ Return

SpecSizing == InitSizing /\ [][NextSizing]_vars

(* C13: with the equal strategy every buy symbol gets                      *)
(* buyableCash * (1 - reserveRatio) / |buySet|, lowered to maxInvestment   *)
(* when a cap > 0 is configured; a symbol is kept exactly when that        *)
(* allocation is >= minInvestment (equal to the minimum is kept: 3         *)
(* symbols, cash 1000, reserve 0.1, minimum 300 give three entries of      *)
(* 300), dropped symbols are not rounded up, and the result is None when   *)
(* no symbol survives. Amounts are compared to the cent.                   *)
EqualAllocation(buy_items, account_balance) ==
    LET share == Frac(account_balance.buyable_cash * (cfg.RESERVE_RATIO.d - cfg.RESERVE_RATIO.n),
                      cfg.RESERVE_RATIO.d * Len(buy_items))
    IN  IF cfg.MAX_INVESTMENT > 0 /\ share.n > cfg.MAX_INVESTMENT * share.d
        THEN Frac(cfg.MAX_INVESTMENT, 1)
        ELSE share

SizingExpected(buy_items, account_balance) ==
    IF /\ buy_items # <<>>
       /\ account_balance.ok
       /\ account_balance.buyable_cash > 0
       /\ EqualAllocation(buy_items, account_balance).n
             >= cfg.MIN_INVESTMENT * EqualAllocation(buy_items, account_balance).d
    THEN [s \in Range(buy_items) |-> Round2(EqualAllocation(buy_items, account_balance))]
    ELSE EmptyDict

C13_EqualAllocationKept ==
    call.op = "calculate_investment_per_stock" =>
        /\ call.result = SizingExpected(call.buy_items, call.account_balance)
        /\ (/\ Len(call.buy_items) = 3
            /\ call.account_balance.ok
            /\ call.account_balance.buyable_cash = 1000
            /\ cfg.RESERVE_RATIO = Pct(10)
            /\ cfg.MIN_INVESTMENT = 300
            /\ cfg.MAX_INVESTMENT = 0)
              => call.result = [s \in Range(call.buy_items) |-> Frac(300, 1)]

\* the same, where the double product is not below the exact amount
C13_OffFloatMisses ==
    (/\ call.op = "calculate_investment_per_stock"
     /\ <<call.account_balance.buyable_cash, cfg.RESERVE_RATIO>> \notin FloatTotalBelow) =>
        call.result = SizingExpected(call.buy_items, call.account_balance)

\* one symbol, cash 170, reserve 0.3, minimum 119: no plan
C13_BoundaryMissReached ==
    /\ call.op = "calculate_investment_per_stock"
    /\ Len(call.buy_items) = 1
    /\ call.account_balance.buyable_cash = 170
    /\ cfg.RESERVE_RATIO = Pct(30)
    /\ cfg.MIN_INVESTMENT = 119
    /\ cfg.MAX_INVESTMENT = 0
    /\ call.result = EmptyDict

(* C14: targetShareCount = floor(allocation / currentPrice); a symbol not  *)
(* held gets shares_to_buy = targetShareCount, a held symbol               *)
(* max(targetShareCount - heldShares, 0), so holding the target or more    *)
(* buys 0 and sizing again on the holdings after the purchase buys nothing *)
(* more.                                                                   *)
HeldShares(current_holdings, s) ==
    LET rows == { i \in 1..Len(current_holdings) : current_holdings[i].symbol = s }
    IN  IF rows = {} THEN 0 ELSE current_holdings[CHOOSE i \in rows : TRUE].quantity

TargetShareCount(allocation, price) ==
    (allocation.n * PriceUnitsPerDollar) \div (allocation.d * price)

C14_Plan ==
    \A s \in DOMAIN call.result :
        LET target == TargetShareCount(call.investment_map[s], call.current_price[s])
            held == HeldShares(call.current_holdings, s)
        IN  /\ held = 0 => call.result[s].shares_to_buy = target
            /\ held # 0 => call.result[s].shares_to_buy = Max(target - held, 0)
            /\ held >= target => call.result[s].shares_to_buy = 0

C14_Again ==
    \A s \in DOMAIN call.result_again : call.result_again[s].shares_to_buy = 0

C14_TopUpToTarget ==
    call.op = "calculate_share_quantities" => (C14_Plan /\ C14_Again)

\* the same, where the double quotient is not below a whole exact quotient
C14_OffFloatMisses ==
    (/\ call.op = "calculate_share_quantities"
     /\ \A s \in DOMAIN call.investment_map :
           <<call.investment_map[s], call.current_price[s]>> \notin FloatShareMisses)
        => (C14_Plan /\ C14_Again)

\* sizing again never buys more, also at those quotients
C14_AgainAlways ==
    call.op = "calculate_share_quantities" => C14_Again

\* 132 dollars at 8.80 a share, 14 held: nothing is bought
C14_ShareMissReached ==
    /\ call.op = "calculate_share_quantities"
    /\ call.investment_map["AAA"] = Frac(132, 1)
    /\ call.current_price["AAA"] = 88
    /\ HeldShares(call.current_holdings, "AAA") = 14
    /\ call.result["AAA"].shares_to_buy = 0

----------------------------------------------------------------------------
(* C15: when the account balance cannot be obtained in a cycle, the buy    *)
(* plan of that cycle is None and the cycle does not abort: the sell       *)
(* decisions are evaluated for all holdings as with a balance.             *)
WithBalance(m) ==
    [m EXCEPT !.account_balance = [ok |-> TRUE, buyable_cash |-> 1000, total_balance |-> 1000]]

HeldSymbols(m) == { s \in Symbols : m.caseOf[s].held }

C15_NoBalanceStillSells ==
    (call.op = "main" /\ call.run.env = "ok" /\ ~call.run.account_balance.ok) =>
        /\ call.outcome = "done"
        /\ call.investment_map = EmptyDict
        /\ call.share_quantities = EmptyDict
        /\ DOMAIN call.decisions = HeldSymbols(call.run)
        /\ call.decisions =
              evaluate_sell_decisions(MainPlan(WithBalance(call.run), call.log_before, call.today).sell_input,
                                      call.trailing_before, call.log_before, call.today).decisions

C15_Witness ==
    /\ call.op = "main"
    /\ call.run.env = "ok"
    /\ ~call.run.account_balance.ok
    /\ call.buy_items # <<>>
    /\ call.outcome = "done"
    /\ \E s \in DOMAIN call.decisions : call.decisions[s].reason = STOP_LOSS
    /\ \E s \in DOMAIN call.decisions : call.decisions[s].reason = NONE

----------------------------------------------------------------------------
(* C16: within one cycle each of the two persisted stores (trailing state  *)
(* and cooldown ledger) is read once at the start and written at most once *)
(* at the end, and only if modified, however many buy candidates are       *)
(* filtered and however many sell events fire.                             *)
C16_StoresOnceEach ==
    (call.op = "main" /\ call.outcome = "done") =>
        /\ call.ledger_io.loads <= 1
        /\ call.ledger_io.saves <= 1
        /\ call.ledger_io.saves = 1 => stop_loss_log # call.log_before
        /\ call.trailing_io.loads <= 1
        /\ call.trailing_io.saves <= 1
        /\ call.trailing_io.saves = 1 => trailing_file # call.trailing_before

\* the trailing-state file alone is loaded once and saved at most once
C16_TrailingOnce ==
    (call.op = "main" /\ call.outcome = "done") =>
        /\ call.trailing_io.loads <= 1
        /\ call.trailing_io.saves <= 1

\* two buy candidates and a sell event: three loads of the ledger
C16_LedgerLoadsReached ==
    /\ call.op = "main"
    /\ Len(call.selected_buy) = 2
    /\ call.ledger_io.loads = 3
    /\ call.ledger_io.saves = 1

----------------------------------------------------------------------------
(* C17: the persisted maps are updated only after all per-symbol decisions *)
(* of the cycle are known: if evaluate_sell_decisions does not complete    *)
(* (an exception while evaluating a later holding, or while saving the     *)
(* trailing state), neither the cooldown ledger nor the trailing-state     *)
(* file has been changed by that cycle.                                    *)
C17_AtomicCycle ==
    call.op = "evaluate_sell_decisions_raised" =>
        /\ stop_loss_log = call.log_before
        /\ trailing_file = call.trailing_before

\* an exception inside the loop leaves the trailing-state file as it was
C17_TrailingKeptInLoop ==
    (/\ call.op = "evaluate_sell_decisions_raised"
     /\ call.fault_at <= Len(call.inp.holdings)) =>
        trailing_file = call.trailing_before

\* the first holding's event is in the ledger although the second raised
C17_PartialLedgerReached ==
    /\ call.op = "evaluate_sell_decisions_raised"
    /\ call.fault_at = 2
    /\ Len(call.inp.holdings) = 2
    /\ call.inp.holdings[1].symbol \notin DOMAIN call.log_before
    /\ call.inp.holdings[1].symbol \in DOMAIN stop_loss_log
    /\ trailing_file = call.trailing_before

----------------------------------------------------------------------------
(* The two stores as files on disk: what load_stop_loss_log and            *)
(* load_trailing_state make of a file that is missing, undecodable or of   *)
(* another shape, and what is_in_cooldown, record_stop_loss_event,         *)
(* update_highest_close and the buy filter of main do with the value       *)
(* loaded. In this specification stop_loss_log and trailing_file hold the  *)
(* file, and state the dict update_highest_close has mutated.              *)

\* a JSON value found under a key of an entry, or the key being absent
Field(t, v) == [t |-> t, v |-> v]

AbsentDate == Field("absent", 0)
AbsentLoss == Field("absent", Zero)
AbsentHigh == Field("absent", 0)

\* a value stored under a symbol: an object with some of the four keys, or
\* a number or a list
StoreEntry(t, date, loss, high, upd) ==
    [t |-> t, last_stop_loss_date |-> date, loss_pct |-> loss,
     highest_close |-> high, last_update |-> upd]

\* the file: absent, bytes that are not UTF-8, text that is not JSON, or a
\* JSON value; entries are the members of a JSON object
StoreFile(kind, entries) == [kind |-> kind, entries |-> entries]

EmptyObject == StoreFile("object", EmptyDict)

FileKinds ==
    {"missing", "invalid_utf8", "invalid_json", "null", "number", "list", "string", "object"}

DateFields ==
    {AbsentDate, Field("iso_date", 0), Field("text", 0), Field("number", 0), Field("null", 0)}

LossFields ==
    {AbsentLoss, Field("number", Pct(-10)), Field("text", Zero), Field("null", Zero)}

HighFields ==
    {AbsentHigh, Field("number", 1200), Field("numeric_text", 1250),
     Field("text", 0), Field("null", 0)}

OddEntries ==
    { StoreEntry(t, AbsentDate, AbsentLoss, AbsentHigh, AbsentDate) : t \in {"number", "list"} }

LedgerEntries ==
    OddEntries \cup
    { StoreEntry("object", d, l, AbsentHigh, AbsentDate) : d \in DateFields, l \in LossFields }

TrailingEntries ==
    OddEntries \cup
    { StoreEntry("object", AbsentDate, AbsentLoss, h, Field("iso_date", 0)) : h \in HighFields }

LedgerFiles ==
    { StoreFile(k, EmptyDict) : k \in FileKinds } \cup
    { StoreFile("object", [s \in {"AAA"} |-> e]) : e \in LedgerEntries }

TrailingFiles ==
    { StoreFile(k, EmptyDict) : k \in FileKinds } \cup
    { StoreFile("object", [s \in {"AAA"} |-> e]) : e \in TrailingEntries }

Loaded(v) == [raised |-> FALSE, value |-> v]
Raises(v) == [raised |-> TRUE, value |-> v]

\* io_error: open() raises IOError although the path exists
load_stop_loss_log(file, io_error) ==
    IF file.kind = "missing" THEN Loaded(EmptyObject)
    ELSE IF io_error THEN Loaded(EmptyObject)
    ELSE IF file.kind = "invalid_utf8" THEN Raises(EmptyObject)
    ELSE IF file.kind = "invalid_json" THEN Loaded(EmptyObject)
    ELSE IF file.kind \in {"null", "number"} THEN Raises(EmptyObject)
    ELSE Loaded(file)

load_trailing_state(file, io_error) ==
    IF file.kind = "missing" THEN Loaded(EmptyObject)
    ELSE IF io_error THEN Loaded(EmptyObject)
    ELSE IF file.kind \in {"invalid_utf8", "invalid_json", "null", "number"}
         THEN Loaded(EmptyObject)
    ELSE Loaded(file)

\* is_in_cooldown from the file it loads: the value it returns, or raised
is_in_cooldown_from_file(file, io_error, symbol, day) ==
    LET loaded == load_stop_loss_log(file, io_error)
        log == loaded.value
    IN  IF loaded.raised THEN Raises(FALSE)
        ELSE IF log.kind # "object" THEN Raises(FALSE)
        ELSE IF symbol \notin DOMAIN log.entries THEN Loaded(FALSE)
        ELSE LET entry == log.entries[symbol]
                 last_date == entry.last_stop_loss_date
                 loss_pct == entry.loss_pct
             IN  IF entry.t # "object" THEN Raises(FALSE)
                 ELSE IF last_date.t = "absent" THEN Loaded(FALSE)
                 ELSE IF last_date.t = "text" THEN Loaded(FALSE)
                 ELSE IF last_date.t \in {"number", "null"} THEN Raises(FALSE)
                 ELSE IF loss_pct.t = "absent" THEN Loaded(FALSE)
                 ELSE IF loss_pct.t \in {"text", "null"} THEN Raises(FALSE)
                 ELSE Loaded(day - last_date.v < calculate_cooldown_days(loss_pct.v))

\* the file after record_stop_loss_event, or raised with the file as it was
record_stop_loss_event_to_file(file, io_error, symbol, loss_pct, day) ==
    LET loaded == load_stop_loss_log(file, io_error)
        log == loaded.value
    IN  IF loaded.raised THEN Raises(file)
        ELSE IF log.kind # "object" THEN Raises(file)
        ELSE Loaded(StoreFile("object",
                DictPut(log.entries, symbol,
                    StoreEntry("object",
                               Field("iso_date", day),
                               Field("number", loss_pct_to_record(loss_pct)),
                               AbsentHigh, AbsentDate))))

\* update_highest_close on the dict load_trailing_state returned: the value
\* returned and the dict as mutated, or raised
update_highest_close_from_file(file, io_error, symbol, close_price, day) ==
    LET st == load_trailing_state(file, io_error).value
        held == st.kind = "object" /\ symbol \in DOMAIN st.entries
        high == IF held THEN st.entries[symbol].highest_close ELSE AbsentHigh
    IN  IF st.kind # "object" THEN Raises([result |-> Field("number", 0), state |-> st])
        ELSE IF held /\ st.entries[symbol].t # "object"
             THEN Raises([result |-> Field("number", 0), state |-> st])
        ELSE IF close_price <= 0
             THEN Loaded([result |-> IF high.t = "absent" THEN Field("number", 0) ELSE high,
                          state |-> st])
        ELSE IF high.t \in {"text", "null"}
             THEN Raises([result |-> Field("number", 0), state |-> st])
        ELSE LET prev_high == IF high.t = "absent" THEN 0 ELSE high.v
                 new_high == IF prev_high > 0 THEN Max(prev_high, close_price) ELSE close_price
             IN  Loaded([result |-> Field("number", new_high),
                         state |-> StoreFile("object",
                            DictPut(st.entries, symbol,
                                StoreEntry("object", AbsentDate, AbsentLoss,
                                           Field("number", new_high),
                                           Field("iso_date", day))))])

\* the buy filter of main: is_in_cooldown for every candidate, in order
filter_cooldown_from_file(file, io_error, buy_items, day) ==
    LET verdict(i) == is_in_cooldown_from_file(file, io_error, buy_items[i], day)
    IN  IF \E i \in 1..Len(buy_items) : verdict(i).raised
        THEN Raises(<<>>)
        ELSE Loaded(FilterSeq(buy_items,
                { s \in Range(buy_items) :
                    ~is_in_cooldown_from_file(file, io_error, s, day).value }, 1))

StoreDays == {1, 12}
StoreClosePrices == {0, 1100, 1300}
StoreBuyItems == {<<"AAA">>, <<"BBB", "AAA">>}

InitStores ==
    /\ cfg = DefaultConfig
    /\ today \in StoreDays
    /\ stop_loss_log \in LedgerFiles
    /\ trailing_file \in TrailingFiles
    /\ state = EmptyObject
    /\ max_close = [s \in Symbols |-> 0]
    /\ presale_high = EmptyDict
    /\ call = IdleCall
    /\ prev_call = IdleCall

LoadStopLossLog(io_error) ==
    /\ call.op = "idle"
    /\ call' = [op |-> "load_stop_loss_log",
                io_error |-> io_error,
                result |-> load_stop_loss_log(stop_loss_log, io_error)]
    /\ UNCHANGED <<cfg, today, stop_loss_log, trailing_file, state, max_close, presale_high, prev_call>>

LoadTrailingState(io_error) ==
    /\ call.op = "idle"
    /\ call' = [op |-> "load_trailing_state",
                io_error |-> io_error,
                result |-> load_trailing_state(trailing_file, io_error)]
    /\ UNCHANGED <<cfg, today, stop_loss_log, trailing_file, state, max_close, presale_high, prev_call>>

IsInCooldownFromFile(symbol, io_error) ==
    /\ call.op = "idle"
    /\ call' = [op |-> "is_in_cooldown",
                symbol |-> symbol,
                io_error |-> io_error,
                result |-> is_in_cooldown_from_file(stop_loss_log, io_error, symbol, today)]
    /\ UNCHANGED <<cfg, today, stop_loss_log, trailing_file, state, max_close, presale_high, prev_call>>

RecordStopLossEventToFile(symbol, loss_pct, io_error) ==
    /\ call.op = "idle"
    /\ LET r == record_stop_loss_event_to_file(stop_loss_log, io_error, symbol, loss_pct, today)
       IN  /\ stop_loss_log' = r.value
           /\ call' = [op |-> "record_stop_loss_event",
                       symbol |-> symbol,
                       io_error |-> io_error,
                       log_before |-> stop_loss_log,
                       result |-> [raised |-> r.raised, value |-> r.raised]]
    /\ UNCHANGED <<cfg, today, trailing_file, state, max_close, presale_high, prev_call>>

UpdateHighestCloseFromFile(symbol, close_price, io_error) ==
    /\ call.op = "idle"
    /\ LET r == update_highest_close_from_file(trailing_file, io_error, symbol, close_price, today)
       IN  /\ state' = r.value.state
           /\ call' = [op |-> "update_highest_close",
                       symbol |-> symbol,
                       close_price |-> close_price,
                       io_error |-> io_error,
                       result |-> [raised |-> r.raised, value |-> r.value.result]]
    /\ UNCHANGED <<cfg, today, stop_loss_log, trailing_file, max_close, presale_high, prev_call>>

FilterCooldownFromFile(buy_items, io_error) ==
    /\ call.op = "idle"
    /\ call' = [op |-> "main_filter",
                buy_items |-> buy_items,
                io_error |-> io_error,
                result |-> filter_cooldown_from_file(stop_loss_log, io_error, buy_items, today)]
    /\ UNCHANGED <<cfg, today, stop_loss_log, trailing_file, state, max_close, presale_high, prev_call>>

NextStores ==
    \/ \E io \in BOOLEAN : LoadStopLossLog(io)
    \/ \E io \in BOOLEAN : LoadTrailingState(io)
    \/ \E s \in Symbols, io \in BOOLEAN : IsInCooldownFromFile(s, io)
    \/ \E s \in Symbols, io \in BOOLEAN : RecordStopLossEventToFile(s, Some(Pct(-10)), io)
    \/ \E s \in Symbols, c \in StoreClosePrices, io \in BOOLEAN :
          UpdateHighestCloseFromFile(s, c, io)
    \/ \E b \in StoreBuyItems, io \in BOOLEAN : FilterCooldownFromFile(b, io)
    \/ Return

SpecStores == InitStores /\ [][NextStores]_vars

----------------------------------------------------------------------------
(* C18: a missing, unreadable or malformed persisted store (trailing state *)
(* or cooldown ledger), including well-formed JSON of the wrong shape (not *)
(* an object, or an entry with a missing or mistyped last_stop_loss_date,  *)
(* loss_pct or highest_close), is treated as empty and never makes         *)
(* load_stop_loss_log, load_trailing_state, is_in_cooldown,                *)
(* update_highest_close or the cycle raise.                                *)
StoreReaders ==
    {"load_stop_loss_log", "load_trailing_state", "is_in_cooldown",
     "update_highest_close", "main_filter"}

C18_CorruptStoresNeverRaise ==
    call.op \in StoreReaders => ~call.result.raised

\* what the code does tolerate: load_trailing_state never raises; a file
\* that is missing, cannot be opened or is not JSON is an empty ledger; an
\* entry without a key, or whose date is text that is no date, is no
\* cooldown; an entry without highest_close starts from the close given
C18_ToleratedStores ==
    /\ call.op = "load_trailing_state" =>
          /\ ~call.result.raised
          /\ (trailing_file.kind \notin {"object", "list", "string"} \/ call.io_error)
                => call.result.value = EmptyObject
    /\ (/\ call.op = "load_stop_loss_log"
        /\ (stop_loss_log.kind \in {"missing", "invalid_json"} \/ call.io_error))
          => call.result = Loaded(EmptyObject)
    /\ (/\ call.op = "is_in_cooldown"
        /\ stop_loss_log.kind = "object"
        /\ call.symbol \in DOMAIN stop_loss_log.entries
        /\ stop_loss_log.entries[call.symbol].t = "object"
        /\ \/ stop_loss_log.entries[call.symbol].last_stop_loss_date.t \in {"absent", "text"}
           \/ /\ stop_loss_log.entries[call.symbol].last_stop_loss_date.t = "iso_date"
              /\ stop_loss_log.entries[call.symbol].loss_pct.t = "absent")
          => call.result = Loaded(FALSE)
    /\ (/\ call.op = "update_highest_close"
        /\ call.close_price > 0
        /\ trailing_file.kind = "object"
        /\ call.symbol \in DOMAIN trailing_file.entries
        /\ trailing_file.entries[call.symbol].t = "object"
        /\ trailing_file.entries[call.symbol].highest_close.t = "absent"
        /\ ~call.io_error)
          => call.result = Loaded(Field("number", call.close_price))

\* the buy filter of main raised over a ledger file holding a JSON list
C18_WrongShapeRaisesReached ==
    /\ call.op = "main_filter"
    /\ stop_loss_log.kind = "list"
    /\ ~call.io_error
    /\ call.result.raised

----------------------------------------------------------------------------
(* C19: across any sequence of cycles and ledger operations (including     *)
(* cycles in which loading the ledger file fails), a symbol that has a     *)
(* CooldownEntry keeps one: entries are only ever overwritten by a newer   *)
(* event for the same symbol and are never removed.                        *)

\* the symbols that have a CooldownEntry in the file
LedgerSymbols(file) ==
    IF file.kind = "object"
    THEN { s \in DOMAIN file.entries :
             /\ file.entries[s].t = "object"
             /\ file.entries[s].last_stop_loss_date.t = "iso_date"
             /\ file.entries[s].loss_pct.t = "number" }
    ELSE {}

C19_Step ==
    /\ LedgerSymbols(stop_loss_log) \subseteq LedgerSymbols(stop_loss_log')
    /\ \A s \in LedgerSymbols(stop_loss_log) :
          stop_loss_log'.entries[s] # stop_loss_log.entries[s] =>
              /\ call'.op = "record_stop_loss_event"
              /\ call'.symbol = s

C19_EntriesNeverRemoved == [][C19_Step]_vars

\* as long as the file can be opened, an event leaves the other entries alone
C19_KeptWhenLoaded ==
    (call.op = "record_stop_loss_event" /\ ~call.io_error) =>
        /\ LedgerSymbols(call.log_before) \subseteq LedgerSymbols(stop_loss_log)
        /\ \A s \in LedgerSymbols(call.log_before) \ {call.symbol} :
              stop_loss_log.entries[s] = call.log_before.entries[s]

\* an event for BBB recorded while the file could not be opened: AAA's entry is gone
C19_EntryLostReached ==
    /\ call.op = "record_stop_loss_event"
    /\ call.io_error
    /\ ~call.result.raised
    /\ call.symbol = "BBB"
    /\ "AAA" \in LedgerSymbols(call.log_before)
    /\ LedgerSymbols(stop_loss_log) = {"BBB"}

----------------------------------------------------------------------------
(* C20: record_stop_loss_event called with a positive loss_pct (a gain,    *)
(* for example +0.10) is ignored: afterwards the stop-loss log contains no *)
(* entry for that symbol.                                                  *)
C20_PositiveLossIgnored ==
    (/\ call.op = "record_stop_loss_event"
     /\ call.loss_pct # None
     /\ FLt(Zero, call.loss_pct[1])) =>
        call.symbol \notin DOMAIN stop_loss_log

\* a gain is recorded as an event of the day with loss 0.0
C20_PositiveLossRecordedAsZero ==
    (/\ call.op = "record_stop_loss_event"
     /\ call.loss_pct # None
     /\ FLt(Zero, call.loss_pct[1])) =>
        /\ call.symbol \in DOMAIN stop_loss_log
        /\ stop_loss_log[call.symbol] =
              [last_stop_loss_date |-> call.today, loss_pct |-> Zero]

\* +0.10 recorded into an empty log
C20_PositiveLossReached ==
    /\ call.op = "record_stop_loss_event"
    /\ call.loss_pct = Some(Pct(10))
    /\ call.log_before = EmptyDict
    /\ DOMAIN stop_loss_log = {call.symbol}

----------------------------------------------------------------------------
(* Position sizing under the proportional strategy *)

ProportionalChoices == {Zero, Pct(5), Pct(10), Pct(50)}

ProportionalConfigs ==
    { [DefaultConfig EXCEPT !.DISTRIBUTION_STRATEGY = "proportional",
                            !.PROPORTIONAL_PERCENTAGE = pp,
                            !.MAX_INVESTMENT = mx] :
        pp \in ProportionalChoices, mx \in MaxInvestmentChoices }

\* cash and the total balance, which also counts the stocks held
ProportionalBalances ==
    { [ok |-> FALSE, buyable_cash |-> 0, total_balance |-> 0] }
    \cup { [ok |-> TRUE, buyable_cash |-> c, total_balance |-> t] :
              c \in {0, 300, 1000}, t \in {1000, 2400} }

InitProportional ==
    /\ cfg \in ProportionalConfigs
    /\ today = 0
    /\ stop_loss_log = EmptyDict
    /\ trailing_file = EmptyDict
    /\ state = EmptyDict
    /\ max_close = [s \in Symbols |-> 0]
    /\ presale_high = EmptyDict
    /\ call = IdleCall
    /\ prev_call = IdleCall

NextProportional ==
    \/ \E k \in 0..Len(SizingSymbols), b \in ProportionalBalances :
          CalculateInvestmentPerStock(SubSeq(SizingSymbols, 1, k), b)
    \/ Return

SpecProportional == InitProportional /\ [][NextProportional]_vars

\* a sizing call that takes the proportional branch
ProportionalCall ==
    /\ call.op = "calculate_investment_per_stock"
    /\ cfg.DISTRIBUTION_STRATEGY = "proportional"
    /\ FLt(Zero, cfg.PROPORTIONAL_PERCENTAGE)
    /\ call.buy_items # <<>>
    /\ call.account_balance.ok
    /\ call.account_balance.buyable_cash > 0

FlatAmount == FMul(FromInt(call.account_balance.total_balance), cfg.PROPORTIONAL_PERCENTAGE)

CappedFlatAmount ==
    IF cfg.MAX_INVESTMENT > 0 /\ FLt(FromInt(cfg.MAX_INVESTMENT), FlatAmount)
    THEN FromInt(cfg.MAX_INVESTMENT)
    ELSE FlatAmount

FAdd(a, b) == Frac(a.n * b.d + b.n * a.d, a.d * b.d)

RECURSIVE PlanTotalOver(_, _)
PlanTotalOver(plan, S) ==
    IF S = {} THEN Zero
    ELSE LET s == CHOOSE x \in S : TRUE
         IN  FAdd(plan[s], PlanTotalOver(plan, S \ {s}))

\* the sum of the allocations in the plan
PlanTotal(plan) == PlanTotalOver(plan, DOMAIN plan)

C21_CapLowersReached ==
    /\ ProportionalCall
    /\ cfg.MAX_INVESTMENT = 250
    /\ FlatAmount = FromInt(500)
    /\ \E s \in DOMAIN call.result : call.result[s] = FromInt(250)

----------------------------------------------------------------------------
(* stock_analysis.py: the trend template over the downloaded history *)

MaxHistory == 8

\* the moving-average windows and the look-back of the MA200 check, set
\* through MA_50_DAYS, MA_150_DAYS, MA_200_DAYS and MA_INCREASE_CHECK_DAYS
\* to short windows (the defaults are 50, 150, 200 and 21)
TrendConfig ==
    [ MA_50_DAYS |-> 2,
      MA_150_DAYS |-> 3,
      MA_200_DAYS |-> 4,
      MA_INCREASE_CHECK_DAYS |-> 3,
      HIGH_THRESHOLD_RATIO |-> Pct(75),
      LOW_INCREASE_PERCENT |-> 30,
      MIN_PRICE_THRESHOLD |-> Pct(1) ]

\* a float: a number or NaN
Num(v) == [nan |-> FALSE, v |-> v]
NaN == [nan |-> TRUE, v |-> Zero]

\* a >= b on floats: false when either side is NaN
FloatGe(a, b) == ~a.nan /\ ~b.nan /\ FLe(b.v, a.v)
FloatGt(a, b) == ~a.nan /\ ~b.nan /\ FLt(b.v, a.v)
FloatTimes(a, f) == IF a.nan THEN NaN ELSE Num(FMul(a.v, f))

RECURSIVE SumSeq(_, _, _)
SumSeq(seq, a, b) == IF a > b THEN 0 ELSE seq[a] + SumSeq(seq, a + 1, b)

\* The Close column of one symbol: pad rows without a price (dates on which
\* only other symbols traded) followed by the symbol's closing prices.
Rows(h) == h.pad + Len(h.closes)

\* rolling(window=days).mean() at row pos (1 = first row)
rolling_mean(h, days, pos) ==
    IF pos < h.pad + days
    THEN NaN
    ELSE Num(Frac(SumSeq(h.closes, pos - h.pad - days + 1, pos - h.pad), days))

get_moving_averages(h, days) ==
    IF Rows(h) > 0 /\ Rows(h) >= days
    THEN rolling_mean(h, days, Rows(h))
    ELSE Num(Zero)

is_200_ma_increasing_recently(h, margin) ==
    LET check_days == TrendConfig.MA_INCREASE_CHECK_DAYS
        required_days == TrendConfig.MA_200_DAYS
    IN  IF Rows(h) > 0 /\ Rows(h) >= required_days
        THEN IF Rows(h) >= check_days
             THEN LET current_ma == rolling_mean(h, required_days, Rows(h))
                      past_ma == rolling_mean(h, required_days, Rows(h) - check_days + 1)
                  IN  FloatGe(current_ma, FloatTimes(past_ma, FSub(One, margin)))
             ELSE FALSE
        ELSE FALSE

\* Close.iloc[-1], or 0.0 without data
finder_current_price(h) ==
    IF Rows(h) = 0 THEN Num(Zero) ELSE Num(FromInt(h.closes[Len(h.closes)]))

is_above_75_percent_of_52_week_high(current, last_high, margin) ==
    IF FLt(FromInt(last_high), TrendConfig.MIN_PRICE_THRESHOLD)
    THEN FALSE
    ELSE LET threshold_price == FMul(FromInt(last_high), TrendConfig.HIGH_THRESHOLD_RATIO)
         IN  FloatGt(current, Num(FMul(threshold_price, FSub(One, margin))))

\* current is a float, last_low a price; None stands for a division by zero
is_above_52_week_low_unguarded(current, last_low, margin) ==
    IF last_low = 0
    THEN None
    ELSE LET increase_percent ==
                 FloatTimes(Num(FMul(FSub(current.v, FromInt(last_low)), Frac(1, last_low))),
                            FromInt(100))
             threshold == FMul(FromInt(TrendConfig.LOW_INCREASE_PERCENT), FSub(One, margin))
         IN  Some(~current.nan /\ FloatGe(increase_percent, Num(threshold)))

is_above_52_week_low(current, last_low, margin) ==
    IF FLt(FromInt(last_low), TrendConfig.MIN_PRICE_THRESHOLD)
    THEN Some(FALSE)
    ELSE LET increase_percent ==
                 FloatTimes(Num(FMul(FSub(current.v, FromInt(last_low)), Frac(1, last_low))),
                            FromInt(100))
             threshold == FMul(FromInt(TrendConfig.LOW_INCREASE_PERCENT), FSub(One, margin))
         IN  Some(~current.nan /\ FloatGe(increase_percent, Num(threshold)))

\* volume_ok: the verdict of compare_volume_price_movement on the Volume column
has_valid_trend_template(h, margin, last_low, last_high, volume_ok) ==
    LET latest_50_ma == get_moving_averages(h, TrendConfig.MA_50_DAYS)
        latest_150_ma == get_moving_averages(h, TrendConfig.MA_150_DAYS)
        latest_200_ma == get_moving_averages(h, TrendConfig.MA_200_DAYS)
        current_price == finder_current_price(h)
        m == FSub(One, margin)
    IN  IF \/ latest_50_ma = Num(Zero)
           \/ latest_150_ma = Num(Zero)
           \/ latest_200_ma = Num(Zero)
        THEN FALSE
        ELSE /\ FloatGe(current_price, FloatTimes(latest_150_ma, m))
             /\ FloatGe(current_price, FloatTimes(latest_200_ma, m))
             /\ FloatGe(latest_150_ma, FloatTimes(latest_200_ma, m))
             /\ is_200_ma_increasing_recently(h, margin)
             /\ FloatGe(latest_50_ma, FloatTimes(latest_150_ma, m))
             /\ FloatGe(latest_50_ma, FloatTimes(latest_200_ma, m))
             /\ FloatGe(current_price, FloatTimes(latest_50_ma, m))
             /\ is_above_52_week_low(current_price, last_low, margin) = Some(TRUE)
             /\ is_above_75_percent_of_52_week_high(current_price, last_high, margin)
             /\ volume_ok

ClosePriceChoices == {10, 12}

RECURSIVE SeqsOf(_, _)
SeqsOf(S, n) ==
    IF n = 0 THEN { <<>> }
    ELSE { Append(q, x) : q \in SeqsOf(S, n - 1), x \in S }

Histories ==
    { [pad |-> 0, closes |-> q] : q \in UNION { SeqsOf(ClosePriceChoices, n) : n \in 0..MaxHistory } }
    \cup { [pad |-> 2, closes |-> q] :
              q \in UNION { SeqsOf(ClosePriceChoices, n) : n \in 1..(MaxHistory - 2) } }

Margins == {Zero, Pct(10)}
LastLows == {0, 5, 9}
LastHighs == {0, 12, 20}

InitTrend ==
    /\ cfg = DefaultConfig
    /\ today = 0
    /\ stop_loss_log = EmptyDict
    /\ trailing_file = EmptyDict
    /\ state \in Histories
    /\ max_close = [s \in Symbols |-> 0]
    /\ presale_high = EmptyDict
    /\ call = IdleCall
    /\ prev_call = IdleCall

\* state holds the downloaded history of the symbol
HasValidTrendTemplate(margin, last_low, last_high, volume_ok) ==
    /\ call.op = "idle"
    /\ call' = [op |-> "has_valid_trend_template",
                margin |-> margin,
                last_low |-> last_low,
                last_high |-> last_high,
                volume_ok |-> volume_ok,
                result |-> has_valid_trend_template(state, margin, last_low, last_high, volume_ok)]
    /\ UNCHANGED <<cfg, today, stop_loss_log, trailing_file, state, max_close, presale_high, prev_call>>

IsAbove52WeekLow(margin, last_low) ==
    /\ call.op = "idle"
    /\ call' = [op |-> "is_above_52_week_low",
                margin |-> margin,
                last_low |-> last_low,
                current |-> finder_current_price(state),
                result |-> is_above_52_week_low(finder_current_price(state), last_low, margin)]
    /\ UNCHANGED <<cfg, today, stop_loss_log, trailing_file, state, max_close, presale_high, prev_call>>

NextTrend ==
    \/ \E m \in Margins, lo \in LastLows, hi \in LastHighs, v \in BOOLEAN :
          HasValidTrendTemplate(m, lo, hi, v)
    \/ \E m \in Margins, lo \in LastLows : IsAbove52WeekLow(m, lo)
    \/ Return

SpecTrend == InitTrend /\ [][NextTrend]_vars

\* the number of closing prices the symbol has
ClosingPrices == Len(state.closes)

RequiredHistory == TrendConfig.MA_200_DAYS + TrendConfig.MA_INCREASE_CHECK_DAYS

(* C22: has_valid_trend_template returns false for every symbol that has   *)
(* fewer than MA_200_DAYS + MA_INCREASE_CHECK_DAYS (default 221) closing   *)
(* prices or for which any of the 50/150/200-day moving averages cannot be *)
(* computed; insufficient history never yields a true verdict.             *)
C22_InsufficientHistoryFalse ==
    (/\ call.op = "has_valid_trend_template"
     /\ ClosingPrices < RequiredHistory) =>
        call.result = FALSE

\* the verdict is false with fewer than MA_200_DAYS + MA_INCREASE_CHECK_DAYS - 1
\* closing prices, and whenever a moving average cannot be computed
C22_FalseBelowOneLess ==
    (/\ call.op = "has_valid_trend_template"
     /\ \/ ClosingPrices < RequiredHistory - 1
        \/ ClosingPrices < TrendConfig.MA_200_DAYS) =>
        call.result = FALSE

\* a true verdict with one closing price less than required
C22_OneShortTrueReached ==
    /\ call.op = "has_valid_trend_template"
    /\ ClosingPrices = RequiredHistory - 1
    /\ call.result = TRUE

----------------------------------------------------------------------------
(* C23: for every symbol whose 52-week low is below MIN_PRICE_THRESHOLD    *)
(* (including 0), is_above_52_week_low returns false for any margin and    *)
(* any current price, without dividing by the low and without raising.     *)
C23_LowBelowThresholdFalse ==
    /\ (/\ call.op = "is_above_52_week_low"
        /\ FLt(FromInt(call.last_low), TrendConfig.MIN_PRICE_THRESHOLD)) =>
          call.result = Some(FALSE)
    /\ (/\ call.op = "has_valid_trend_template"
        /\ FLt(FromInt(call.last_low), TrendConfig.MIN_PRICE_THRESHOLD)) =>
          call.result = FALSE

\* a low of 0 under a positive current price
C23_Witness ==
    /\ call.op = "is_above_52_week_low"
    /\ call.last_low = 0
    /\ call.current = Num(FromInt(12))
    /\ call.margin = Pct(10)
    /\ call.result = Some(FALSE)

----------------------------------------------------------------------------
(* stock_operations.py: the three broker fetches and their retries *)

MAX_RETRIES == 2

\* What fetch_present_balance does for one exchange: answers without
\* holdings, answers with a holding and cash, answers with an error return
\* code, or raises.
Responses == {"ok_empty", "ok_items", "error", "exception"}

Failed(response) == response \in {"error", "exception"}

\* what the broker does at each attempt, for NASDAQ and for NYSE
BrokerScripts == [1..MAX_RETRIES -> Responses \X Responses]

\* output1[*].pdno of an answer
Tickers(response, exchange) ==
    IF response = "ok_items" THEN {IF exchange = 1 THEN "AAA" ELSE "BBB"} ELSE {}

\* the cash reported in output2 of an answer
AvailableCash(response) == IF response = "ok_items" THEN 500 ELSE 0

Fetched(attempts, value) == [raised |-> FALSE, attempts |-> attempts, value |-> value]

all_retries_failed_silent(value) ==
    [raised |-> FALSE, attempts |-> MAX_RETRIES, value |-> value]

\* raise APIError(error_msg) after the loop
all_retries_failed(value) ==
    [raised |-> TRUE, attempts |-> MAX_RETRIES, value |-> value]

RECURSIVE fetch_us_stock_holdings_from(_, _, _)
fetch_us_stock_holdings_from(script, attempt, selected_items) ==
    IF attempt > MAX_RETRIES
    THEN all_retries_failed({})
    ELSE LET a == script[attempt]
             after_nasdaq == selected_items \cup Tickers(a[1], 1)
             after_nyse == after_nasdaq \cup Tickers(a[2], 2)
         IN  IF Failed(a[1])
             THEN fetch_us_stock_holdings_from(script, attempt + 1, selected_items)
             ELSE IF Failed(a[2])
             THEN fetch_us_stock_holdings_from(script, attempt + 1, after_nasdaq)
             ELSE IF after_nyse # {}
             THEN Fetched(attempt, after_nyse)
             ELSE fetch_us_stock_holdings_from(script, attempt + 1, after_nyse)

fetch_us_stock_holdings(script) == fetch_us_stock_holdings_from(script, 1, {})

RECURSIVE fetch_account_balance_from(_, _)
fetch_account_balance_from(script, attempt) ==
    IF attempt > MAX_RETRIES
    THEN all_retries_failed(0)
    ELSE LET a == script[attempt]
         IN  IF Failed(a[1]) \/ Failed(a[2])
             THEN fetch_account_balance_from(script, attempt + 1)
             ELSE Fetched(attempt, AvailableCash(a[1]) + AvailableCash(a[2]))

\* the total available cash, or raised
fetch_account_balance(script) == fetch_account_balance_from(script, 1)

RECURSIVE fetch_holdings_detail_from(_, _)
fetch_holdings_detail_from(script, attempt) ==
    IF attempt > MAX_RETRIES
    THEN all_retries_failed({})
    ELSE LET a == script[attempt]
         IN  IF Failed(a[1]) \/ Failed(a[2])
             THEN fetch_holdings_detail_from(script, attempt + 1)
             ELSE Fetched(attempt, Tickers(a[1], 1) \cup Tickers(a[2], 2))

\* the symbols of the holdings returned, or raised
fetch_holdings_detail(script) == fetch_holdings_detail_from(script, 1)

\* what main does with fetch_us_stock_holdings: an APIError ends the run
main_after_holdings(fetched) == IF fetched.raised THEN "stopped" ELSE "continues"

InitBroker ==
    /\ cfg = DefaultConfig
    /\ today = 0
    /\ stop_loss_log = EmptyDict
    /\ trailing_file = EmptyDict
    /\ state = EmptyDict
    /\ max_close = [s \in Symbols |-> 0]
    /\ presale_high = EmptyDict
    /\ call = IdleCall
    /\ prev_call = IdleCall

FetchUsStockHoldings(script) ==
    /\ call.op = "idle"
    /\ call' = [op |-> "fetch_us_stock_holdings",
                script |-> script,
                result |-> fetch_us_stock_holdings(script),
                main |-> main_after_holdings(fetch_us_stock_holdings(script))]
    /\ UNCHANGED <<cfg, today, stop_loss_log, trailing_file, state, max_close, presale_high, prev_call>>

FetchAccountBalance(script) ==
    /\ call.op = "idle"
    /\ call' = [op |-> "fetch_account_balance",
                script |-> script,
                result |-> fetch_account_balance(script)]
    /\ UNCHANGED <<cfg, today, stop_loss_log, trailing_file, state, max_close, presale_high, prev_call>>

FetchHoldingsDetail(script) ==
    /\ call.op = "idle"
    /\ call' = [op |-> "fetch_holdings_detail",
                script |-> script,
                result |-> fetch_holdings_detail(script)]
    /\ UNCHANGED <<cfg, today, stop_loss_log, trailing_file, state, max_close, presale_high, prev_call>>

NextBroker ==
    \/ \E script \in BrokerScripts : FetchUsStockHoldings(script)
    \/ \E script \in BrokerScripts : FetchAccountBalance(script)
    \/ \E script \in BrokerScripts : FetchHoldingsDetail(script)
    \/ Return

SpecBroker == InitBroker /\ [][NextBroker]_vars

BrokerFetches == {"fetch_us_stock_holdings", "fetch_account_balance", "fetch_holdings_detail"}

\* the attempts of the script in which a query fails
FailedAttempts(script) ==
    { k \in 1..MAX_RETRIES : Failed(script[k][1]) \/ Failed(script[k][2]) }

(* C24: each broker fetch (fetch_us_stock_holdings, fetch_account_balance, *)
(* fetch_holdings_detail) terminates after at most MAX_RETRIES attempts,   *)
(* and when every attempt fails (error return code or exception from the   *)
(* broker) it raises APIError instead of returning an empty list or None.  *)
C24_RetriesThenAPIError ==
    call.op \in BrokerFetches =>
        /\ call.result.attempts <= MAX_RETRIES
        /\ FailedAttempts(call.script) = 1..MAX_RETRIES => call.result.raised
        /\ ~call.result.raised => call.result.attempts \notin FailedAttempts(call.script)

\* an error return code on the first attempt, an exception on the last
C24_Witness ==
    /\ call.op = "fetch_holdings_detail"
    /\ call.script[1][1] = "error"
    /\ call.script[MAX_RETRIES] = <<"ok_items", "exception">>
    /\ FailedAttempts(call.script) = 1..MAX_RETRIES
    /\ call.result.raised
    /\ call.result.attempts = MAX_RETRIES

----------------------------------------------------------------------------
(* C30: when every broker query succeeds but the account holds no stocks,  *)
(* fetch_us_stock_holdings returns an empty list on that attempt without   *)
(* retrying or raising, and main continues the cycle with an empty         *)
(* previous-holdings list instead of stopping.                             *)
C30_EmptyAccountContinues ==
    (/\ call.op = "fetch_us_stock_holdings"
     /\ \A k \in 1..MAX_RETRIES : call.script[k] = <<"ok_empty", "ok_empty">>) =>
        /\ ~call.result.raised
        /\ call.result.attempts = 1
        /\ call.result.value = {}
        /\ call.main = "continues"

\* fetch_holdings_detail does answer an empty account with an empty list on
\* the first attempt that succeeds
C30_DetailReturnsEmpty ==
    (/\ call.op = "fetch_holdings_detail"
     /\ \A k \in 1..MAX_RETRIES : call.script[k] = <<"ok_empty", "ok_empty">>) =>
        /\ ~call.result.raised
        /\ call.result.attempts = 1
        /\ call.result.value = {}

\* every query succeeded, no stocks: APIError after the last attempt, main stops
C30_EmptyAccountRaisesReached ==
    /\ call.op = "fetch_us_stock_holdings"
    /\ \A k \in 1..MAX_RETRIES : call.script[k] = <<"ok_empty", "ok_empty">>
    /\ call.result.raised
    /\ call.result.attempts = MAX_RETRIES
    /\ call.main = "stopped"

----------------------------------------------------------------------------
(* C25: in one evaluate_sell_decisions call, a cooldown event dated today  *)
(* is recorded for a symbol if and only if the symbol's final decision in  *)
(* the returned map has reason other than NONE; a NONE decision records    *)
(* nothing, and the recorded loss_pct is                                   *)
(* min((currentPrice - avgPrice)/avgPrice, 0) when both prices are > 0 and *)
(* 0.0 otherwise.                                                          *)
ExpectedEventLoss(inp, h) ==
    LET p == PriceUsed(inp, h)
        pct == Frac(p - h.avg_price, h.avg_price)
    IN  IF h.avg_price > 0 /\ p > 0
        THEN (IF FLt(pct, Zero) THEN pct ELSE Zero)
        ELSE Zero

LedgerEntryKept(s) ==
    /\ (s \in DOMAIN stop_loss_log) = (s \in DOMAIN call.log_before)
    /\ s \in DOMAIN stop_loss_log => stop_loss_log[s] = call.log_before[s]

----------------------------------------------------------------------------
\* symbols the share-quantity plan of the cycle tells to buy
PlannedBuys(c) ==
    { s \in DOMAIN c.share_quantities : c.share_quantities[s].shares_to_buy > 0 }

\* symbols the cycle decides to sell
DecidedSells(c) ==
    { s \in DOMAIN c.decisions : c.decisions[s].reason # NONE }

(* C26: in one cycle no symbol both appears in the share-quantity buy plan *)
(* with shares_to_buy > 0 and receives a sell decision with a reason other *)
(* than NONE.                                                              *)
C26_NoBuyAndSell ==
    call.op = "main" => PlannedBuys(call) \cap DecidedSells(call) = {}

\* what does hold: a symbol in the buy plan is never sold for its trend,
\* because the trend tier skips every symbol of the passed buy list
C26_PlannedNeverTrend ==
    call.op = "main" =>
        \A s \in PlannedBuys(call) \cap DecidedSells(call) :
            call.decisions[s].reason \in {STOP_LOSS, TRAILING, AVSL}

\* a held buy candidate at the stop is planned for an additional buy and
\* decided STOP_LOSS in the same cycle
C26_BuyAndSellReached ==
    /\ call.op = "main"
    /\ call.outcome = "done"
    /\ \E s \in PlannedBuys(call) :
          /\ call.share_quantities[s].current_quantity > 0
          /\ s \in DOMAIN call.decisions
          /\ call.decisions[s].reason = STOP_LOSS

----------------------------------------------------------------------------
\* first day on which the entry of s no longer excludes it
CooldownEnd(log, s) ==
    log[s].last_stop_loss_date + calculate_cooldown_days(log[s].loss_pct)

(* C27: once a loss event with loss L is recorded for a symbol on day D,   *)
(* the symbol stays excluded from buy candidacy on every day D' with       *)
(* D <= D' < D + cooldownDays(L), whatever further sell events are         *)
(* recorded for that symbol in between: no step takes a day still to come  *)
(* out of the window of the entry.                                         *)
C27_Step ==
    \A s \in DOMAIN stop_loss_log :
        \A d \in today'..MaxDay :
            d < CooldownEnd(stop_loss_log, s) => is_in_cooldown(stop_loss_log', s, d)

C27_KeptStep ==
    /\ \A s \in DOMAIN stop_loss_log :
          (stop_loss_log'[s] = stop_loss_log[s] /\ today' < CooldownEnd(stop_loss_log, s))
              => is_in_cooldown(stop_loss_log', s, today')
    /\ (call.op = "idle" /\ call'.op = "record_stop_loss_event") =>
          \A d \in today..MaxDay :
              is_in_cooldown(stop_loss_log', call'.symbol, d)
                  = (d < today + calculate_cooldown_days(loss_pct_to_record(call'.loss_pct)))

----------------------------------------------------------------------------
(* C28: a TRAILING decision is never produced for a symbol in the cycle in *)
(* which its trailing entry is first created (no prior entry, or a prior   *)
(* highest_close <= 0): with ATR > 0 and a positive multiplier the stop    *)
(* price is then strictly below the current price, and a trailing exit     *)
(* requires a highest close recorded in an earlier cycle that exceeds the  *)
(* current price by at least ATR * multiplier.                             *)
C28_NoTrailingOnCreation ==
    call.op = "evaluate_sell_decisions" =>
        \A h \in RowsOf(call.inp) :
            (h.symbol \in DOMAIN call.decisions /\ call.decisions[h.symbol].reason = TRAILING) =>
                /\ h.symbol \in DOMAIN call.trailing_before
                /\ HighestCloseOf(call.trailing_before, h.symbol) > 0
                /\ HighestCloseOf(call.trailing_before, h.symbol)
                      >= PriceUsed(call.inp, h)
                           + call.inp.atr[h.symbol] * cfg.TRAILING_ATR_MULTIPLIER

\* an entry is created for a held symbol with ATR > 0, and the symbol is
\* kept; the other symbol, whose entry is older, leaves on its trailing stop
C28_Witness ==
    /\ call.op = "evaluate_sell_decisions"
    /\ \E h \in RowsOf(call.inp) :
          /\ h.symbol \notin DOMAIN call.trailing_before
          /\ h.symbol \in DOMAIN trailing_file
          /\ call.inp.atr[h.symbol] > 0
          /\ call.decisions[h.symbol].reason = NONE
    /\ \E s \in DOMAIN call.decisions : call.decisions[s].reason = TRAILING

----------------------------------------------------------------------------
\* the trailing entry of s is the same before and after the call
TrailingEntryKept(s) ==
    IF s \in DOMAIN call.trailing_before
    THEN s \in DOMAIN trailing_file /\ trailing_file[s] = call.trailing_before[s]
    ELSE s \notin DOMAIN trailing_file

\* the holding rows that reach the update of the highest close
GatePassed(inp) ==
    { h \in RowsOf(inp) : h.symbol # "" /\ h.quantity > 0 /\ ProfitGate(inp, h) }

====
